---- MODULE Spec2Model ----
(***************************************************************************)
(* Model of the conversation-list screen (MessagesScreen) of the client:   *)
(* the participant resolver getOtherParticipant, the fetch pipeline        *)
(* fetchCurrentUser / fetchConversations, and the two change               *)
(* subscriptions installed by the screen's effect.                         *)
(*                                                                         *)
(* Two specifications share the module.  SpecResolver draws a participant  *)
(* list and a viewer identifier from bounded sets and applies the pure     *)
(* functions of the screen to them.  Spec is the screen's life: mount,     *)
(* overlapping fetches, change events, retry, pull-to-refresh, unmount.    *)
(***************************************************************************)
EXTENDS Naturals, Sequences, FiniteSets

(* ------------------------------ bounds -------------------------------- *)

\* longest participant list given to the resolver
MaxLen == 3

\* longest conversation list held by the gateway
MaxConvs == 2

\* fetchConversations calls one screen instance starts after initialize()
MaxRefetches == 1

\* undelivered change events per channel
MaxPending == 1

\* calls of startConversation
MaxCalls == 2

\* calls of fetchData / fetchCurrentChallenge after the one of the mount
MaxTries == 2

\* message rows inserted into the conversation of the direct-message screen
MaxMessages == 3

\* presses of the like button, and pulls to refresh, on the home feed
MaxPresses == 1

\* like events in flight to the home feed
MaxLikeEvents == 2

\* notification rows inserted for the viewer
MaxNotifications == 2

\* characters of the message input
MaxInput == 2

\* RSVP sheets of one user open for one event (one per device)
MaxSheets == 2

\* largest guest count typed into a sheet
MaxGuests == 1

\* calls of fetchAttendeeCount
MaxFetches == 2

(* ------------------------------ values -------------------------------- *)

\* JavaScript null for the string-typed state (currentUserId, error, avatar_url)
Null == "null"

\* a profile row that came back without an identifier (falsy id)
NoId == "undefined"

\* a participant row whose joined profile is missing (profiles: null)
NullProfile == [null |-> TRUE]

\* the resolver's and renderItem's null result
NullResult == [null |-> TRUE]

UserIds == {"u1", "u2"}

AvatarUrls == {Null, "a", "b"}

\* type Conversation['participants'][number]['profiles']
Profiles == [id : UserIds \cup {NoId}, avatar_url : AvatarUrls]

\* type Conversation['participants'][number], profile possibly missing
Participants == [profiles : Profiles \cup {NullProfile}]

RECURSIVE SeqsUpTo(_, _)
SeqsUpTo(S, n) ==
  IF n = 0 THEN {<<>>}
  ELSE LET shorter == SeqsUpTo(S, n - 1)
       IN shorter \cup {Append(s, x) : s \in {t \in shorter : Len(t) = n - 1}, x \in S}

(* ------------------- getOtherParticipant (pure part) ------------------ *)

\* mutant: the test forgets the identifier
HasValidProfile_noIdTest(p) == p.profiles # NullProfile

\* (p) => p.profiles && p.profiles.id
HasValidProfile(p) == p.profiles # NullProfile /\ p.profiles.id # NoId

RECURSIVE MapProfiles(_)
MapProfiles(ps) ==
  IF ps = <<>> THEN <<>> ELSE <<Head(ps).profiles>> \o MapProfiles(Tail(ps))

\* conversation.participants.filter(valid).map((p) => p.profiles)
validProfiles(participants) ==
  MapProfiles(SelectSeq(participants, LAMBDA p : HasValidProfile(p)))

\* validProfiles.filter((profile) => profile.id !== currentUserId)
otherProfiles(participants, viewer) ==
  SelectSeq(validProfiles(participants), LAMBDA profile : profile.id # viewer)

\* mutant: the first valid profile, the viewer's own included
getOtherParticipant_firstValid(participants, viewer) ==
  IF Len(validProfiles(participants)) = 0 THEN NullResult
  ELSE validProfiles(participants)[1]

\* mutant: a self-conversation is unresolvable
getOtherParticipant_noSelf(participants, viewer) ==
  IF Len(otherProfiles(participants, viewer)) > 0
  THEN otherProfiles(participants, viewer)[1]
  ELSE NullResult

\* mutant: the last of the other participants
getOtherParticipant_lastOther(participants, viewer) ==
  IF Len(validProfiles(participants)) = 0 THEN NullResult
  ELSE IF Len(otherProfiles(participants, viewer)) > 0
       THEN otherProfiles(participants, viewer)[Len(otherProfiles(participants, viewer))]
  ELSE validProfiles(participants)[1]

getOtherParticipant(participants, viewer) ==
  IF Len(participants) = 0 THEN NullResult
  ELSE IF Len(validProfiles(participants)) = 0 THEN NullResult
  ELSE IF Len(otherProfiles(participants, viewer)) > 0
       THEN otherProfiles(participants, viewer)[1]
  ELSE validProfiles(participants)[1]

\* mutant: the filter keeps every conversation that has a participant
IsValidConversation_anyParticipant(conv) ==
  Len(conv.participants) > 0

\* the predicate of data.filter(...) in fetchConversations
IsValidConversation(conv) ==
  /\ Len(conv.participants) > 0
  /\ \E i \in 1..Len(conv.participants) : HasValidProfile(conv.participants[i])

\* mutant: one invalid conversation empties the whole list
validConversations_allOrNothing(data) ==
  IF \A i \in 1..Len(data) : IsValidConversation(data[i]) THEN data ELSE <<>>

\* const validConversations = data.filter(...)
validConversations(data) == SelectSeq(data, LAMBDA conv : IsValidConversation(conv))

\* conversation.participants.find((p) => p.profiles && p.profiles.id !==
\* currentUserId)?.profiles?.avatar_url || otherParticipant.avatar_url
\* (a missing identifier is not equal to currentUserId, so it passes the test)
avatarUrl(participants, viewer, otherParticipant) ==
  LET found == SelectSeq(participants,
                 LAMBDA p : p.profiles # NullProfile /\ p.profiles.id # viewer)
      first == IF found = <<>> THEN Null ELSE found[1].profiles.avatar_url
  IN IF first # Null THEN first ELSE otherParticipant.avatar_url

\* renderItem: null when the resolver finds nobody, else the row's view-model
renderItem(conv, viewer) ==
  LET otherParticipant == getOtherParticipant(conv.participants, viewer)
  IN IF otherParticipant = NullResult THEN NullResult
     ELSE [id |-> conv.id, otherParticipant |-> otherParticipant,
           avatarUrl |-> avatarUrl(conv.participants, viewer, otherParticipant)]

(* ------------- getOtherParticipant of the direct-message screen ------- *)

\* reading profile.id of a participant without profile throws a TypeError
TypeError == [throws |-> "TypeError"]

\* participants.map((p) => p.profiles).find((profile) => profile.id !==
\* currentUserId); undefined (no match) is the null result
RECURSIVE headerOtherParticipant(_, _)
headerOtherParticipant(participants, viewer) ==
  IF participants = <<>> THEN NullResult
  ELSE IF Head(participants).profiles = NullProfile THEN TypeError
  ELSE IF Head(participants).profiles.id # viewer THEN Head(participants).profiles
  ELSE headerOtherParticipant(Tail(participants), viewer)

(* --------------------------- gateway data ----------------------------- *)

\* the signed-in user reported by supabase.auth.getUser()
Viewer == "u1"

Profile(i, a) == [id |-> i, avatar_url |-> a]

Participant(pr) == [profiles |-> pr]

\* rows of the conversations table as the nested select returns them
ConversationRows ==
  { [id |-> "c1", participants |-> <<Participant(Profile("u1", "a")), Participant(Profile("u2", "b"))>>],
    [id |-> "c2", participants |-> <<Participant(NullProfile), Participant(Profile(NoId, "a"))>>],
    [id |-> "c3", participants |-> <<Participant(Profile("u1", "a"))>>] }

NoRepeat(s) == \A i, j \in 1..Len(s) : i # j => s[i] # s[j]

\* the result sets the gateway can hold: lists of distinct rows
Datasets == {d \in SeqsUpTo(ConversationRows, MaxConvs) : NoRepeat(d)}

(* ----------------------------- messages ------------------------------- *)

ErrUserError == "Authentication error. Please try signing in again."

ErrNoUser == "No user found. Please sign in."

ErrAuthThrow == "Failed to authenticate. Please try again."

ErrFetchError == "Failed to load conversations: <message>"

ErrThrow == "Failed to load conversations. Please try again."

GetUserFailures == {"userError", "noUser", "authThrow"}

QueryOutcomes == {"ok", "fetchError", "throw"}

(* ------------------------------- state -------------------------------- *)

VARIABLES
  conversations,         \* useState<Conversation[]>([])
  loading,               \* useState(true)
  refreshing,            \* useState(false)
  currentUserId,         \* useState<string | null>(null)
  error,                 \* useState<string | null>(null)
  mounted,               \* let mounted = true, of the effect
  conversationsChannel,  \* subscription to table conversations
  messagesChannel,       \* subscription to table messages
  pending,               \* change events in flight to each channel's callback
  remote,                \* the gateway's current result set
  started,               \* number of fetchConversations calls after initialize()
  inflight,              \* the fetchConversations calls not yet settled, oldest first
  initPc,                \* position of initialize(): "fetch", "debug", "done"
  lastSettled,           \* history: the fetch that settled last and its outcome
  ignored,               \* history: a channel callback ran after the cleanup
  rParticipants,         \* resolver input: conversation.participants
  rViewer,               \* resolver input: currentUserId
  rpc,                   \* position in the resolver pipeline
  rKept,                 \* output of the fetch-time filter
  rOther,                \* output of getOtherParticipant
  rItem,                 \* output of renderItem
  rHeader,               \* output of getOtherParticipant of the direct-message screen
  conversationsTable,    \* table conversations: the identifiers of its rows
  participantsTable,     \* table conversation_participants: its rows
  calls,                 \* the calls of startConversation, by order of start
  chScreen,              \* "rankings" or "details": the challenge screen shown
  chChallenge,           \* useState<Challenge | null>(null)
  chProgress,            \* useState<Progress[]>([]): progress / participants
  chLoading,             \* useState(true)
  chError,               \* useState<string | null>(null)
  chRefreshing,          \* useState(false)
  chCalls,               \* the calls of the screen's fetch not yet settled
  chStarted,             \* number of calls after the one of the mount
  chSettled,             \* history: the call that settled last
  dmMessages,            \* useState<Message[]>([]): message ids, newest first
  dmLoading,             \* useState(true)
  dmError,               \* useState<string | null>(null)
  dmFetch,               \* the call of fetchMessages of the effect
  dmChannel,             \* subscription conversation:${id}
  dmEvents,              \* INSERT events in flight to the callback, oldest first
  dmTable,               \* table messages, rows of this conversation, newest first
  dmDelivered,           \* history: ids the callback has received
  likedPosts,            \* useState<Set<string>>(new Set())
  likesTable,            \* table likes: its rows
  likesChannel,          \* subscription public:likes
  likeEvents,            \* change events in flight to the likes callback
  likedFetch,            \* the call of fetchLikedPosts in flight, if any
  likeCalls,             \* the calls of handleLike not yet settled
  likePresses,           \* number of presses and refreshes so far
  everLiked,             \* history: posts for which a like of the viewer existed
  ntNotifications,       \* useState<Notification[]>([]): ids, newest first
  ntLoading,             \* useState(true)
  ntRefreshing,          \* useState(false)
  ntError,               \* useState<string | null>(null)
  ntActive,              \* the notifications screen is mounted
  ntEffect,              \* position of the effect's fetchUser()
  ntChannel,             \* subscription notifications
  ntEvents,              \* INSERT events in flight to the callback
  ntCalls,               \* the calls of fetchNotifications not yet settled
  ntTable,               \* table notifications, rows of the viewer, newest first
  newMessage,            \* useState(''): the input of the direct-message screen
  sending,               \* useState(false)
  sends,                 \* the calls of handleSend not yet settled
  lastSend,              \* history: how the last call of handleSend ended
  sentContents,          \* history: the contents inserted by handleSend
  rsvpTable,             \* table event_rsvps: its rows
  sheets,                \* the RSVP sheets: loading, error, and the submit in flight
  totalAttendees,        \* useState(0) of the event screen
  hasRSVP,               \* useState(false) of the event screen
  attendeeCalls          \* the calls of fetchAttendeeCount, oldest first

screen == <<conversations, loading, refreshing, currentUserId, error>>

gateway == <<conversationsChannel, messagesChannel, pending, remote>>

control == <<mounted, started, inflight, initPc, lastSettled, ignored>>

resolver == <<rParticipants, rViewer, rpc, rKept, rOther, rItem, rHeader>>

messagesScreen == <<screen, gateway, control>>

starter == <<conversationsTable, participantsTable, calls>>

challengeScreen ==
  <<chScreen, chChallenge, chProgress, chLoading, chError, chRefreshing,
    chCalls, chStarted, chSettled>>

directMessage ==
  <<dmMessages, dmLoading, dmError, dmFetch, dmChannel, dmEvents, dmTable, dmDelivered>>

homeScreen ==
  <<likedPosts, likesTable, likesChannel, likeEvents, likedFetch, likeCalls,
    likePresses, everLiked>>

notificationsScreen ==
  <<ntNotifications, ntLoading, ntRefreshing, ntError, ntActive, ntEffect,
    ntChannel, ntEvents, ntCalls, ntTable>>

composer == <<newMessage, sending, sends, lastSend, sentContents>>

\* the screens described after the notifications screen
rsvp == <<rsvpTable, sheets>>

eventScreen == <<totalAttendees, hasRSVP, attendeeCalls>>

furtherScreens == <<composer, rsvp, eventScreen>>

elsewhere ==
  <<starter, challengeScreen, directMessage, homeScreen, notificationsScreen, furtherScreens>>

vars == <<messagesScreen, resolver, elsewhere>>

\* history record of a settled call: overtaken tells that a call started
\* after it had settled before it
NoSettle == [outcome |-> "none", data |-> <<>>, overtaken |-> FALSE]

\* a call of fetchConversations suspended at its first await; awaited tells
\* that initialize() awaits it
NewFetch(awaited) ==
  [pc |-> "getUser", outcome |-> "none", data |-> <<>>, awaited |-> awaited,
   overtaken |-> FALSE]

\* state after the first render and the run of the effect: initialize() has
\* called setLoading(true) and fetchConversations(), both channels subscribed
InitScreen ==
  /\ conversations = <<>>
  /\ loading = TRUE
  /\ refreshing = FALSE
  /\ currentUserId = Null
  /\ error = Null
  /\ mounted = TRUE
  /\ conversationsChannel = "subscribed"
  /\ messagesChannel = "subscribed"
  /\ pending = [t \in {"conversations", "messages"} |-> 0]
  /\ remote = <<>>
  /\ started = 0
  /\ inflight = <<NewFetch(TRUE)>>
  /\ initPc = "fetch"
  /\ lastSettled = NoSettle
  /\ ignored = FALSE

InitResolverIdle ==
  /\ rParticipants = <<>>
  /\ rViewer = Null
  /\ rpc = "idle"
  /\ rKept = FALSE
  /\ rOther = NullResult
  /\ rItem = NullResult
  /\ rHeader = NullResult

\* a call of startConversation that has not started
IdleCall ==
  [pc |-> "idle", user |-> Null, otherUserId |-> Null,
   existingParticipants |-> <<>>, newConversation |-> 0, pushed |-> 0,
   error |-> Null]

InitStarterIdle ==
  /\ conversationsTable = {}
  /\ participantsTable = {}
  /\ calls = [k \in 1..MaxCalls |-> IdleCall]

\* history record: no call of the challenge screen has settled
NoCall == [outcome |-> "none", retry |-> FALSE]

InitChallengeIdle ==
  /\ chScreen = "rankings"
  /\ chChallenge = Null
  /\ chProgress = <<>>
  /\ chLoading = TRUE
  /\ chError = Null
  /\ chRefreshing = FALSE
  /\ chCalls = <<>>
  /\ chStarted = 0
  /\ chSettled = NoCall

\* the direct-message screen is not open
InitDirectIdle ==
  /\ dmMessages = <<>>
  /\ dmLoading = TRUE
  /\ dmError = Null
  /\ dmFetch = [pc |-> "idle", data |-> <<>>]
  /\ dmChannel = "closed"
  /\ dmEvents = <<>>
  /\ dmTable = <<>>
  /\ dmDelivered = {}

\* the home feed is not open
InitHomeIdle ==
  /\ likedPosts = {}
  /\ likesTable = {}
  /\ likesChannel = "closed"
  /\ likeEvents = <<>>
  /\ likedFetch = [pc |-> "idle", data |-> {}]
  /\ likeCalls = <<>>
  /\ likePresses = 0
  /\ everLiked = {}

\* the notifications screen is not open
InitNotificationsIdle ==
  /\ ntNotifications = <<>>
  /\ ntLoading = TRUE
  /\ ntRefreshing = FALSE
  /\ ntError = Null
  /\ ntActive = FALSE
  /\ ntEffect = "idle"
  /\ ntChannel = "none"
  /\ ntEvents = 0
  /\ ntCalls = <<>>
  /\ ntTable = <<>>

\* nothing is typed and nothing is being sent
InitComposerIdle ==
  /\ newMessage = <<>>
  /\ sending = FALSE
  /\ sends = <<>>
  /\ lastSend = "none"
  /\ sentContents = {}

\* the screens described after the notifications screen are not open
\* a sheet with no submit in flight
IdleSheet ==
  [loading |-> FALSE, error |-> Null, pc |-> "idle", guestCount |-> 0,
   existingRSVP |-> Null, closed |-> FALSE]

\* no RSVP exists and no sheet submits
InitRsvpIdle ==
  /\ rsvpTable = {}
  /\ sheets = [k \in 1..MaxSheets + 1 |-> IdleSheet]

\* the event screen is not mounted
InitEventIdle ==
  /\ totalAttendees = 0
  /\ hasRSVP = FALSE
  /\ attendeeCalls = <<>>

\* the screens described after the notifications screen are not open
InitFurtherIdle == InitComposerIdle /\ InitRsvpIdle /\ InitEventIdle

\* the screens other than the conversation list and the resolver are not open
InitElsewhereIdle ==
  /\ InitStarterIdle /\ InitChallengeIdle /\ InitDirectIdle /\ InitHomeIdle
  /\ InitNotificationsIdle /\ InitFurtherIdle

Init == InitScreen /\ InitResolverIdle /\ InitElsewhereIdle

(* ------------------- fetchCurrentUser / fetchConversations ------------ *)

\* the message fetchCurrentUser sets before it returns null
FetchCurrentUserError(kind) ==
  IF kind = "userError" THEN ErrUserError
  ELSE IF kind = "noUser" THEN ErrNoUser
  ELSE ErrAuthThrow

\* mutant: a sequencing token discards the result of an overtaken call
SettledConversations_token(f) ==
  IF f.outcome = "ok" /\ ~f.overtaken
  THEN IF Len(f.data) = 0 THEN <<>> ELSE validConversations(f.data)
  ELSE conversations

\* the value fetchConversations leaves in conversations once the query settled
SettledConversations(f) ==
  IF f.outcome = "ok"
  THEN IF Len(f.data) = 0 THEN <<>> ELSE validConversations(f.data)
  ELSE conversations

\* mutant: the catch block only logs
SettledError_swallow(f) ==
  IF f.outcome = "ok" THEN Null
  ELSE IF f.outcome = "fetchError" THEN ErrFetchError
  ELSE error

\* the value fetchConversations leaves in error once the query settled
SettledError(f) ==
  IF f.outcome = "ok" THEN Null
  ELSE IF f.outcome = "fetchError" THEN ErrFetchError
  ELSE ErrThrow

\* a call of fetchConversations(): runs up to the await of getUser()
StartFetch ==
  /\ started < MaxRefetches
  /\ started' = started + 1
  /\ inflight' = Append(inflight, NewFetch(FALSE))

\* the calls left in flight when call i settles; the older ones are overtaken
Settle(i) ==
  [j \in 1..(Len(inflight) - 1) |->
     IF j < i THEN [inflight[j] EXCEPT !.overtaken = TRUE] ELSE inflight[j + 1]]

\* initialize() awaits its call of fetchConversations, then debugConversations()
InitializeAfter(f) == IF f.awaited THEN "debug" ELSE initPc

\* mutant: the user's id is returned but not stored
GetUserOk_notStored(i) ==
  /\ i \in 1..Len(inflight) /\ inflight[i].pc = "getUser"
  /\ inflight' = [inflight EXCEPT ![i].pc = "query"]
  /\ UNCHANGED <<conversations, loading, refreshing, error, currentUserId>>
  /\ UNCHANGED <<gateway, mounted, started, initPc, lastSettled, ignored, resolver, elsewhere>>

\* getUser() resolves with a user: setCurrentUserId, then the query is sent
GetUserOk(i) ==
  /\ i \in 1..Len(inflight) /\ inflight[i].pc = "getUser"
  /\ currentUserId' = Viewer
  /\ inflight' = [inflight EXCEPT ![i].pc = "query"]
  /\ UNCHANGED <<conversations, loading, refreshing, error>>
  /\ UNCHANGED <<gateway, mounted, started, initPc, lastSettled, ignored, resolver, elsewhere>>

\* mutant: the early return leaves loading as it is
GetUserFails_keepLoading(i, kind) ==
  /\ i \in 1..Len(inflight) /\ inflight[i].pc = "getUser"
  /\ kind \in GetUserFailures
  /\ error' = FetchCurrentUserError(kind)
  /\ refreshing' = FALSE
  /\ inflight' = Settle(i)
  /\ initPc' = InitializeAfter(inflight[i])
  /\ lastSettled' = [outcome |-> kind, data |-> <<>>, overtaken |-> inflight[i].overtaken]
  /\ UNCHANGED <<conversations, currentUserId, loading>>
  /\ UNCHANGED <<gateway, mounted, started, ignored, resolver, elsewhere>>

\* getUser() reports an error, no user, or throws: fetchCurrentUser sets the
\* error and returns null; fetchConversations sets loading false and returns
\* through its finally block
GetUserFails(i, kind) ==
  /\ i \in 1..Len(inflight) /\ inflight[i].pc = "getUser"
  /\ kind \in GetUserFailures
  /\ error' = FetchCurrentUserError(kind)
  /\ loading' = FALSE
  /\ refreshing' = FALSE
  /\ inflight' = Settle(i)
  /\ initPc' = InitializeAfter(inflight[i])
  /\ lastSettled' = [outcome |-> kind, data |-> <<>>, overtaken |-> inflight[i].overtaken]
  /\ UNCHANGED <<conversations, currentUserId>>
  /\ UNCHANGED <<gateway, mounted, started, ignored, resolver, elsewhere>>

\* the gateway answers the select: the current rows, an error, or the
\* request fails (a null data and an empty data take the same branch)
QueryExecutes(i, outcome) ==
  /\ i \in 1..Len(inflight) /\ inflight[i].pc = "query"
  /\ outcome \in QueryOutcomes
  /\ inflight' = [inflight EXCEPT ![i].pc = "response", ![i].outcome = outcome,
                                  ![i].data = IF outcome = "ok" THEN remote ELSE <<>>]
  /\ UNCHANGED <<screen, gateway, mounted, started, initPc, lastSettled, ignored, resolver, elsewhere>>

\* the awaited select settles in the client: the rest of fetchConversations
QuerySettles(i) ==
  /\ i \in 1..Len(inflight) /\ inflight[i].pc = "response"
  /\ conversations' = SettledConversations(inflight[i])
  /\ error' = SettledError(inflight[i])
  /\ loading' = FALSE
  /\ refreshing' = FALSE
  /\ inflight' = Settle(i)
  /\ initPc' = InitializeAfter(inflight[i])
  /\ lastSettled' = [outcome |-> inflight[i].outcome, data |-> inflight[i].data,
                     overtaken |-> inflight[i].overtaken]
  /\ UNCHANGED <<currentUserId, gateway, mounted, started, ignored, resolver, elsewhere>>

\* debugConversations() only logs; then the finally block of initialize()
InitializeFinally ==
  /\ initPc = "debug"
  /\ initPc' = "done"
  /\ loading' = IF mounted THEN FALSE ELSE loading
  /\ UNCHANGED ignored
  /\ UNCHANGED <<conversations, refreshing, currentUserId, error>>
  /\ UNCHANGED <<gateway, mounted, started, inflight, lastSettled, resolver, elsewhere>>

(* --------------------------- subscriptions ---------------------------- *)

\* a conversation row is created at the gateway (the select orders by
\* updated_at descending, so it comes first); a subscribed conversations
\* channel gets a postgres_changes event
ConversationInserted(row) ==
  /\ Len(remote) < MaxConvs
  /\ row \in ConversationRows
  /\ \A i \in 1..Len(remote) : remote[i] # row
  /\ remote' = <<row>> \o remote
  /\ IF conversationsChannel = "subscribed"
     THEN /\ pending["conversations"] < MaxPending
          /\ pending' = [pending EXCEPT !["conversations"] = @ + 1]
     ELSE pending' = pending
  /\ UNCHANGED ignored
  /\ UNCHANGED <<screen, conversationsChannel, messagesChannel>>
  /\ UNCHANGED <<mounted, started, inflight, initPc, lastSettled, resolver, elsewhere>>

\* a message row is created at the gateway; the subscribed messages channel
\* gets a postgres_changes event
MessageInserted ==
  /\ messagesChannel = "subscribed"
  /\ pending["messages"] < MaxPending
  /\ pending' = [pending EXCEPT !["messages"] = @ + 1]
  /\ UNCHANGED ignored
  /\ UNCHANGED <<screen, conversationsChannel, messagesChannel, remote>>
  /\ UNCHANGED <<mounted, started, inflight, initPc, lastSettled, resolver, elsewhere>>

\* mutant: an event is coalesced into the call already in flight
ChangeCallback_coalesce(table) ==
  /\ pending[table] > 0
  /\ pending' = [pending EXCEPT ![table] = @ - 1]
  /\ IF mounted /\ inflight = <<>> THEN StartFetch ELSE UNCHANGED <<started, inflight>>
  /\ ignored' = (ignored \/ ~mounted)
  /\ UNCHANGED <<screen, conversationsChannel, messagesChannel, remote>>
  /\ UNCHANGED <<mounted, initPc, lastSettled, resolver, elsewhere>>

\* mutant: the callback does not test mounted
ChangeCallback_noGuard(table) ==
  /\ pending[table] > 0
  /\ pending' = [pending EXCEPT ![table] = @ - 1]
  /\ StartFetch
  /\ ignored' = (ignored \/ ~mounted)
  /\ UNCHANGED <<screen, conversationsChannel, messagesChannel, remote>>
  /\ UNCHANGED <<mounted, initPc, lastSettled, resolver, elsewhere>>

\* the callback of a channel: if (mounted) fetchConversations()
ChangeCallback(table) ==
  /\ pending[table] > 0
  /\ pending' = [pending EXCEPT ![table] = @ - 1]
  /\ IF mounted THEN StartFetch ELSE UNCHANGED <<started, inflight>>
  /\ ignored' = (ignored \/ ~mounted)
  /\ UNCHANGED <<screen, conversationsChannel, messagesChannel, remote>>
  /\ UNCHANGED <<mounted, initPc, lastSettled, resolver, elsewhere>>

\* callback of conversationsChannel
ConversationChange == ChangeCallback("conversations")

\* callback of messagesChannel
MessageChange == ChangeCallback("messages")

\* cleanup of the effect
Unmount ==
  /\ mounted
  /\ mounted' = FALSE
  /\ conversationsChannel' = "closed"
  /\ messagesChannel' = "closed"
  /\ UNCHANGED <<ignored, screen, pending, remote, started, inflight, initPc, lastSettled, resolver, elsewhere>>

(* ---------------------------- user actions ---------------------------- *)

\* pull-to-refresh on the list (shown when not loading and no error)
onRefresh ==
  /\ mounted /\ ~loading /\ error = Null
  /\ refreshing' = TRUE
  /\ StartFetch
  /\ UNCHANGED <<conversations, loading, currentUserId, error, ignored>>
  /\ UNCHANGED <<gateway, mounted, initPc, lastSettled, resolver, elsewhere>>

\* the Retry button of the error view (shown when not loading and error set)
Retry ==
  /\ mounted /\ ~loading /\ error # Null
  /\ loading' = TRUE
  /\ error' = Null
  /\ StartFetch
  /\ UNCHANGED <<conversations, refreshing, currentUserId, ignored>>
  /\ UNCHANGED <<gateway, mounted, initPc, lastSettled, resolver, elsewhere>>

Next ==
  \/ \E i \in 1..Len(inflight) : GetUserOk(i)
  \/ \E i \in 1..Len(inflight), kind \in GetUserFailures : GetUserFails(i, kind)
  \/ \E i \in 1..Len(inflight), outcome \in QueryOutcomes : QueryExecutes(i, outcome)
  \/ \E i \in 1..Len(inflight) : QuerySettles(i)
  \/ InitializeFinally
  \/ \E row \in ConversationRows : ConversationInserted(row)
  \/ MessageInserted
  \/ ConversationChange
  \/ MessageChange
  \/ Unmount
  \/ onRefresh
  \/ Retry

Spec == Init /\ [][Next]_vars

\* a step of a call of fetchConversations in flight: an awaited promise settles
FetchProgress ==
  \/ \E i \in 1..Len(inflight) : GetUserOk(i)
  \/ \E i \in 1..Len(inflight), kind \in GetUserFailures : GetUserFails(i, kind)
  \/ \E i \in 1..Len(inflight), outcome \in QueryOutcomes : QueryExecutes(i, outcome)
  \/ \E i \in 1..Len(inflight) : QuerySettles(i)

\* a conversation row is updated at the gateway (event '*'): the subscribed
\* conversations channel gets an event, the set of rows stays as it is
ConversationUpdated ==
  /\ conversationsChannel = "subscribed"
  /\ pending["conversations"] < MaxPending
  /\ pending' = [pending EXCEPT !["conversations"] = @ + 1]
  /\ UNCHANGED ignored
  /\ UNCHANGED <<screen, conversationsChannel, messagesChannel, remote>>
  /\ UNCHANGED <<mounted, started, inflight, initPc, lastSettled, resolver, elsewhere>>

\* the life of the screen over a gateway whose rows do not change: every
\* call is started and settled as in Next, events come from row updates
NextLoading ==
  \/ FetchProgress
  \/ InitializeFinally
  \/ ConversationUpdated
  \/ MessageInserted
  \/ ConversationChange
  \/ MessageChange
  \/ Unmount
  \/ onRefresh
  \/ Retry

\* the screen under the assumption that every awaited promise settles
FairSpec == Init /\ [][NextLoading]_vars /\ WF_vars(FetchProgress)

(* ----------------------- resolver specification ----------------------- *)

ResolverConversation == [id |-> "c", participants |-> rParticipants]

InitResolver ==
  /\ InitScreen
  /\ rParticipants \in SeqsUpTo(Participants, MaxLen)
  /\ rViewer \in UserIds \cup {Null}
  /\ rpc = "fetched"
  /\ rKept = FALSE
  /\ rOther = NullResult
  /\ rItem = NullResult
  /\ rHeader = NullResult
  /\ InitElsewhereIdle

\* fetchConversations keeps the row or drops it
CallFilter ==
  /\ rpc = "fetched"
  /\ rKept' = (validConversations(<<ResolverConversation>>) # <<>>)
  /\ rpc' = "stored"
  /\ UNCHANGED <<rParticipants, rViewer, rOther, rItem, rHeader, messagesScreen, elsewhere>>

\* getOtherParticipant(conversation), as the search filter calls it
CallGetOtherParticipant ==
  /\ rpc = "stored"
  /\ rOther' = getOtherParticipant(rParticipants, rViewer)
  /\ rpc' = "resolved"
  /\ UNCHANGED <<rParticipants, rViewer, rKept, rItem, rHeader, messagesScreen, elsewhere>>

\* the list renders the stored rows: renderItem runs for a row that was kept
CallRenderItem ==
  /\ rpc = "resolved"
  /\ rItem' = IF rKept THEN renderItem(ResolverConversation, rViewer) ELSE NullResult
  /\ rpc' = "rendered"
  /\ UNCHANGED <<rParticipants, rViewer, rKept, rOther, rHeader, messagesScreen, elsewhere>>

\* the direct-message screen renders its header for the same participants
\* (fetchParticipants applies no filter) and the same viewer
CallHeaderOtherParticipant ==
  /\ rpc = "rendered"
  /\ rHeader' = headerOtherParticipant(rParticipants, rViewer)
  /\ rpc' = "headed"
  /\ UNCHANGED <<rParticipants, rViewer, rKept, rOther, rItem, messagesScreen, elsewhere>>

NextResolver ==
  CallFilter \/ CallGetOtherParticipant \/ CallRenderItem \/ CallHeaderOtherParticipant

SpecResolver == InitResolver /\ [][NextResolver]_vars

(* ------------------- NewMessageScreen.startConversation --------------- *)

ErrNotLoggedIn == "You must be logged in to start a conversation"

ErrStart == "Failed to start conversation"

\* a participant row
ParticipantRow(c, u) == [conversation_id |-> c, user_id |-> u]

\* the rows a select returns, by ascending conversation identifier
RECURSIVE InOrder(_)
InOrder(S) ==
  IF S = {} THEN <<>>
  ELSE LET c == CHOOSE x \in S : \A y \in S : x <= y
       IN <<c>> \o InOrder(S \ {c})

\* select conversation_id from conversation_participants where user_id = u
ConversationsOf(u) ==
  InOrder({c \in conversationsTable : ParticipantRow(c, u) \in participantsTable})

\* the call leaves startConversation through its catch block
Thrown(call) == [call EXCEPT !.pc = "done", !.error = ErrStart]

\* a press on a profile of the search result: startConversation(profile.id)
Press(k, otherUserId) ==
  /\ k \in 1..MaxCalls /\ calls[k].pc = "idle"
  /\ \A j \in 1..(k - 1) : calls[j].pc # "idle"
  /\ otherUserId \in UserIds
  /\ calls' = [calls EXCEPT ![k] = [@ EXCEPT !.pc = "getUser", !.otherUserId = otherUserId]]
  /\ UNCHANGED <<conversationsTable, participantsTable, messagesScreen, resolver, challengeScreen, directMessage, homeScreen,
                 notificationsScreen, furtherScreens>>

\* await supabase.auth.getUser(): the signed-in user, or none (the search
\* result never holds the signed-in user's own profile)
StartGetUser(k, user) ==
  /\ k \in 1..MaxCalls /\ calls[k].pc = "getUser"
  /\ user \in (UserIds \ {calls[k].otherUserId}) \cup {Null}
  /\ calls' = [calls EXCEPT ![k] =
                 IF user = Null
                 THEN [@ EXCEPT !.pc = "done", !.error = ErrNotLoggedIn]
                 ELSE [@ EXCEPT !.pc = "select", !.user = user]]
  /\ UNCHANGED <<conversationsTable, participantsTable, messagesScreen, resolver, challengeScreen, directMessage, homeScreen,
                 notificationsScreen, furtherScreens>>

\* the select of the viewer's participant rows settles, with rows or an error
SelectExisting(k, ok) ==
  /\ k \in 1..MaxCalls /\ calls[k].pc = "select"
  /\ ok \in BOOLEAN
  /\ LET existingParticipants == ConversationsOf(calls[k].user)
     IN calls' = [calls EXCEPT ![k] =
                    IF ~ok THEN Thrown(@)
                    ELSE [@ EXCEPT !.existingParticipants = existingParticipants,
                                   !.pc = IF existingParticipants = <<>>
                                          THEN "insertConversation" ELSE "lookup"]]
  /\ UNCHANGED <<conversationsTable, participantsTable, messagesScreen, resolver, challengeScreen, directMessage, homeScreen,
                 notificationsScreen, furtherScreens>>

\* one round of the loop: the .single() lookup of the other user's row in the
\* next conversation settles; its error is not read, data is null on an error
\* as on no row. A hit ends the call with router.push to that conversation.
Lookup(k, ok) ==
  /\ k \in 1..MaxCalls /\ calls[k].pc = "lookup"
  /\ ok \in BOOLEAN
  /\ LET conversation_id == Head(calls[k].existingParticipants)
         rest == Tail(calls[k].existingParticipants)
         otherParticipant ==
           ok /\ ParticipantRow(conversation_id, calls[k].otherUserId) \in participantsTable
     IN calls' = [calls EXCEPT ![k] =
                    IF otherParticipant
                    THEN [@ EXCEPT !.pc = "done", !.pushed = conversation_id]
                    ELSE [@ EXCEPT !.existingParticipants = rest,
                                   !.pc = IF rest = <<>>
                                          THEN "insertConversation" ELSE "lookup"]]
  /\ UNCHANGED <<conversationsTable, participantsTable, messagesScreen, resolver, challengeScreen, directMessage, homeScreen,
                 notificationsScreen, furtherScreens>>

\* insert({}) into conversations settles: a new row, or an error
InsertConversation(k, ok) ==
  /\ k \in 1..MaxCalls /\ calls[k].pc = "insertConversation"
  /\ ok \in BOOLEAN
  /\ LET id == Cardinality(conversationsTable) + 1
     IN IF ok
        THEN /\ conversationsTable' = conversationsTable \cup {id}
             /\ calls' = [calls EXCEPT ![k] =
                            [@ EXCEPT !.pc = "insertParticipants", !.newConversation = id]]
        ELSE /\ calls' = [calls EXCEPT ![k] = Thrown(@)]
             /\ UNCHANGED conversationsTable
  /\ UNCHANGED <<participantsTable, messagesScreen, resolver, challengeScreen, directMessage, homeScreen,
                 notificationsScreen, furtherScreens>>

\* the insert of the two participant rows settles: both rows and router.push
\* to the new conversation, or an error and no row
InsertParticipants(k, ok) ==
  /\ k \in 1..MaxCalls /\ calls[k].pc = "insertParticipants"
  /\ ok \in BOOLEAN
  /\ LET id == calls[k].newConversation
     IN IF ok
        THEN /\ participantsTable' = participantsTable \cup
                  {ParticipantRow(id, calls[k].user), ParticipantRow(id, calls[k].otherUserId)}
             /\ calls' = [calls EXCEPT ![k] = [@ EXCEPT !.pc = "done", !.pushed = id]]
        ELSE /\ calls' = [calls EXCEPT ![k] = Thrown(@)]
             /\ UNCHANGED participantsTable
  /\ UNCHANGED <<conversationsTable, messagesScreen, resolver, challengeScreen, directMessage, homeScreen,
                 notificationsScreen, furtherScreens>>

\* the tables before the first call: empty, or one conversation of u1 alone
InitStarter ==
  /\ InitScreen /\ InitResolverIdle /\ InitChallengeIdle /\ InitDirectIdle /\ InitHomeIdle
  /\ InitNotificationsIdle /\ InitFurtherIdle
  /\ \/ conversationsTable = {} /\ participantsTable = {}
     \/ conversationsTable = {1} /\ participantsTable = {ParticipantRow(1, "u1")}
  /\ calls = [k \in 1..MaxCalls |-> IdleCall]

NextStarter ==
  \/ \E k \in 1..MaxCalls, otherUserId \in UserIds : Press(k, otherUserId)
  \/ \E k \in 1..MaxCalls, user \in UserIds \cup {Null} : StartGetUser(k, user)
  \/ \E k \in 1..MaxCalls, ok \in BOOLEAN : SelectExisting(k, ok)
  \/ \E k \in 1..MaxCalls, ok \in BOOLEAN : Lookup(k, ok)
  \/ \E k \in 1..MaxCalls, ok \in BOOLEAN : InsertConversation(k, ok)
  \/ \E k \in 1..MaxCalls, ok \in BOOLEAN : InsertParticipants(k, ok)

SpecStarter == InitStarter /\ [][NextStarter]_vars

(* ------- RankingsScreen.fetchData / details.fetchCurrentChallenge ----- *)

ErrNoChallenge(scr) ==
  IF scr = "rankings" THEN "No active challenge found"
  ELSE "No active challenge at the moment. Check back soon!"

ErrLoad(scr) ==
  IF scr = "rankings" THEN "Failed to load rankings"
  ELSE "Failed to load challenge data. Please try again later."

\* the active challenge and the result sets of the progress query
Challenge == "ch1"

ProgressData == {<<>>, <<"u1">>, <<"u2", "u1">>}

\* a call of the screen's fetch suspended at its first await; retry tells
\* that the Try Again button started it
NewChallengeCall(scr, retry) ==
  [pc |-> IF scr = "rankings" THEN "challenges" ELSE "getUser", retry |-> retry]

\* what the screen renders
View ==
  IF chLoading THEN "loading"
  ELSE IF chError # Null \/ chChallenge = Null THEN "error"
  ELSE "data"

\* the calls in flight without call i
ChSettle(i) == [j \in 1..(Len(chCalls) - 1) |-> IF j < i THEN chCalls[j] ELSE chCalls[j + 1]]

\* the finally block, and the history of the settled call
ChFinally(i, outcome) ==
  /\ chLoading' = FALSE
  /\ chRefreshing' = FALSE
  /\ chCalls' = ChSettle(i)
  /\ chSettled' = [outcome |-> outcome, retry |-> chCalls[i].retry]

\* details screen: getUser() settles, with or without a user
ChGetUser(i) ==
  /\ i \in 1..Len(chCalls) /\ chCalls[i].pc = "getUser"
  /\ chCalls' = [chCalls EXCEPT ![i].pc = "challenges"]
  /\ UNCHANGED <<chScreen, chChallenge, chProgress, chLoading, chError, chRefreshing,
                 chStarted, chSettled>>
  /\ UNCHANGED <<messagesScreen, resolver, starter, directMessage, homeScreen,
                 notificationsScreen, furtherScreens>>

\* the query of the active challenges settles: a challenge, none, or an error
ChChallenges(i, outcome) ==
  /\ i \in 1..Len(chCalls) /\ chCalls[i].pc = "challenges"
  /\ outcome \in {"active", "none", "error"}
  /\ CASE outcome = "active" ->
            /\ chChallenge' = Challenge
            /\ chCalls' = [chCalls EXCEPT ![i].pc = "progress"]
            /\ UNCHANGED <<chProgress, chLoading, chError, chRefreshing, chSettled>>
       [] outcome = "none" ->
            /\ chChallenge' = IF chScreen = "details" THEN Null ELSE chChallenge
            /\ chError' = ErrNoChallenge(chScreen)
            /\ ChFinally(i, "none")
            /\ UNCHANGED chProgress
       [] outcome = "error" ->
            /\ chError' = ErrLoad(chScreen)
            /\ ChFinally(i, "error")
            /\ UNCHANGED <<chChallenge, chProgress>>
  /\ UNCHANGED <<chScreen, chStarted>>
  /\ UNCHANGED <<messagesScreen, resolver, starter, directMessage, homeScreen,
                 notificationsScreen, furtherScreens>>

\* the query of the progress rows settles: rows, or an error
ChProgress(i, ok, progressData) ==
  /\ i \in 1..Len(chCalls) /\ chCalls[i].pc = "progress"
  /\ ok \in BOOLEAN /\ progressData \in ProgressData
  /\ IF ok
     THEN /\ chProgress' = progressData
          /\ ChFinally(i, "ok")
          /\ UNCHANGED chError
     ELSE /\ chError' = ErrLoad(chScreen)
          /\ ChFinally(i, "error")
          /\ UNCHANGED chProgress
  /\ UNCHANGED <<chScreen, chChallenge, chStarted>>
  /\ UNCHANGED <<messagesScreen, resolver, starter, directMessage, homeScreen,
                 notificationsScreen, furtherScreens>>

\* the Try Again button of the error view: onPress={fetchData}
TryAgain ==
  /\ View = "error"
  /\ chStarted < MaxTries
  /\ chStarted' = chStarted + 1
  /\ chCalls' = Append(chCalls, NewChallengeCall(chScreen, TRUE))
  /\ UNCHANGED <<chScreen, chChallenge, chProgress, chLoading, chError, chRefreshing,
                 chSettled>>
  /\ UNCHANGED <<messagesScreen, resolver, starter, directMessage, homeScreen,
                 notificationsScreen, furtherScreens>>

\* pull-to-refresh on the data view
handleRefresh ==
  /\ View = "data"
  /\ chStarted < MaxTries
  /\ chStarted' = chStarted + 1
  /\ chRefreshing' = TRUE
  /\ chCalls' = Append(chCalls, NewChallengeCall(chScreen, FALSE))
  /\ UNCHANGED <<chScreen, chChallenge, chProgress, chLoading, chError, chSettled>>
  /\ UNCHANGED <<messagesScreen, resolver, starter, directMessage, homeScreen,
                 notificationsScreen, furtherScreens>>

\* the screen after its mount: the effect has called the fetch
InitChallenge ==
  /\ InitScreen /\ InitResolverIdle /\ InitStarterIdle /\ InitDirectIdle /\ InitHomeIdle
  /\ InitNotificationsIdle /\ InitFurtherIdle
  /\ chScreen \in {"rankings", "details"}
  /\ chChallenge = Null
  /\ chProgress = <<>>
  /\ chLoading = TRUE
  /\ chError = Null
  /\ chRefreshing = FALSE
  /\ chCalls = <<NewChallengeCall(chScreen, FALSE)>>
  /\ chStarted = 0
  /\ chSettled = NoCall

NextChallenge ==
  \/ \E i \in 1..Len(chCalls) : ChGetUser(i)
  \/ \E i \in 1..Len(chCalls), outcome \in {"active", "none", "error"} : ChChallenges(i, outcome)
  \/ \E i \in 1..Len(chCalls), ok \in BOOLEAN, progressData \in ProgressData :
       ChProgress(i, ok, progressData)
  \/ TryAgain
  \/ handleRefresh

SpecChallenge == InitChallenge /\ [][NextChallenge]_vars

(* ------------- DirectMessageScreen: fetchMessages and channel --------- *)

ErrLoadMessages == "Failed to load messages"

\* a message row is inserted into the conversation; the subscribed channel
\* gets its INSERT event
DmMessageInserted ==
  /\ Len(dmTable) < MaxMessages
  /\ LET id == Len(dmTable) + 1
     IN /\ dmTable' = <<id>> \o dmTable
        /\ dmEvents' = IF dmChannel = "subscribed" THEN Append(dmEvents, id) ELSE dmEvents
  /\ UNCHANGED <<dmMessages, dmLoading, dmError, dmFetch, dmChannel, dmDelivered>>
  /\ UNCHANGED <<messagesScreen, resolver, starter, challengeScreen, homeScreen,
                 notificationsScreen, furtherScreens>>

\* the gateway runs the select of fetchMessages: rows by created_at descending
DmQueryExecutes(ok) ==
  /\ dmFetch.pc = "query"
  /\ ok \in BOOLEAN
  /\ dmFetch' = IF ok THEN [pc |-> "rows", data |-> dmTable]
                ELSE [pc |-> "error", data |-> <<>>]
  /\ UNCHANGED <<dmMessages, dmLoading, dmError, dmChannel, dmEvents, dmTable, dmDelivered>>
  /\ UNCHANGED <<messagesScreen, resolver, starter, challengeScreen, homeScreen,
                 notificationsScreen, furtherScreens>>

\* the awaited select settles: setMessages(data || []), or the catch block,
\* then the finally block
DmQuerySettles ==
  /\ dmFetch.pc \in {"rows", "error"}
  /\ IF dmFetch.pc = "rows"
     THEN dmMessages' = dmFetch.data /\ UNCHANGED dmError
     ELSE dmError' = ErrLoadMessages /\ UNCHANGED dmMessages
  /\ dmLoading' = FALSE
  /\ dmFetch' = [pc |-> "done", data |-> <<>>]
  /\ UNCHANGED <<dmChannel, dmEvents, dmTable, dmDelivered>>
  /\ UNCHANGED <<messagesScreen, resolver, starter, challengeScreen, homeScreen,
                 notificationsScreen, furtherScreens>>

\* the channel's callback runs for the oldest event in flight:
\* setMessages((current) => [payload.new, ...current])
DmInsertCallback ==
  /\ dmEvents # <<>>
  /\ dmMessages' = <<Head(dmEvents)>> \o dmMessages
  /\ dmEvents' = Tail(dmEvents)
  /\ dmDelivered' = dmDelivered \cup {Head(dmEvents)}
  /\ UNCHANGED <<dmLoading, dmError, dmFetch, dmChannel, dmTable>>
  /\ UNCHANGED <<messagesScreen, resolver, starter, challengeScreen, homeScreen,
                 notificationsScreen, furtherScreens>>

\* the effect's cleanup: channel.unsubscribe(); events in flight are dropped
DmUnmount ==
  /\ dmChannel = "subscribed"
  /\ dmChannel' = "closed"
  /\ dmEvents' = <<>>
  /\ UNCHANGED <<dmMessages, dmLoading, dmError, dmFetch, dmTable, dmDelivered>>
  /\ UNCHANGED <<messagesScreen, resolver, starter, challengeScreen, homeScreen,
                 notificationsScreen, furtherScreens>>

\* the screen after its mount: fetchMessages() is called, the channel is
\* subscribed, the conversation holds no message yet
InitDirect ==
  /\ InitScreen /\ InitResolverIdle /\ InitStarterIdle /\ InitChallengeIdle /\ InitHomeIdle
  /\ InitNotificationsIdle /\ InitFurtherIdle
  /\ dmMessages = <<>>
  /\ dmLoading = TRUE
  /\ dmError = Null
  /\ dmFetch = [pc |-> "query", data |-> <<>>]
  /\ dmChannel = "subscribed"
  /\ dmEvents = <<>>
  /\ dmTable = <<>>
  /\ dmDelivered = {}

NextDirect ==
  \/ DmMessageInserted
  \/ \E ok \in BOOLEAN : DmQueryExecutes(ok)
  \/ DmQuerySettles
  \/ DmInsertCallback
  \/ DmUnmount

SpecDirect == InitDirect /\ [][NextDirect]_vars

(* ------------------- DirectMessageScreen.handleSend ------------------- *)

ErrSend == "Failed to send message"

\* what can be typed: up to MaxInput characters, blanks among them
Inputs == SeqsUpTo({" ", "a"}, MaxInput)

RECURSIVE TrimStart(_)
TrimStart(text) ==
  IF text # <<>> /\ Head(text) = " " THEN TrimStart(Tail(text)) ELSE text

RECURSIVE TrimEnd(_)
TrimEnd(text) ==
  IF text # <<>> /\ text[Len(text)] = " "
  THEN TrimEnd(SubSeq(text, 1, Len(text) - 1)) ELSE text

\* String.prototype.trim()
Trim(text) == TrimEnd(TrimStart(text))

\* every variable that handleSend and the input leave alone, but for the
\* direct-message screen's own
otherThanDirect ==
  <<messagesScreen, resolver, starter, challengeScreen, homeScreen, notificationsScreen,
    rsvp, eventScreen>>

\* onChangeText={setNewMessage}
setNewMessage(text) ==
  /\ dmChannel = "subscribed"
  /\ text \in Inputs /\ text # newMessage
  /\ newMessage' = text
  /\ UNCHANGED <<sending, sends, lastSend, sentContents, directMessage, otherThanDirect>>

\* mutant: handleSend does not test sending
handleSend_notGuarded ==
  /\ dmChannel = "subscribed"
  /\ Trim(newMessage) # <<>>
  /\ sending' = TRUE
  /\ sends' = Append(sends, [pc |-> "getUser", content |-> Trim(newMessage)])
  /\ UNCHANGED <<newMessage, lastSend, sentContents, directMessage, otherThanDirect>>

\* handleSend up to its first await: it returns at once when the trimmed
\* input is empty or a send is in progress, else sets sending
handleSend ==
  /\ dmChannel = "subscribed"
  /\ ~(Trim(newMessage) = <<>> \/ sending)
  /\ sending' = TRUE
  /\ sends' = Append(sends, [pc |-> "getUser", content |-> Trim(newMessage)])
  /\ UNCHANGED <<newMessage, lastSend, sentContents, directMessage, otherThanDirect>>

\* handleSend: getUser() settles; without a user 'Not authenticated' is
\* thrown and the call goes on to its catch block
SendGetUser(i, user) ==
  /\ i \in 1..Len(sends) /\ sends[i].pc = "getUser"
  /\ user \in {Viewer, Null}
  /\ sends' = [sends EXCEPT ![i].pc = IF user = Null THEN "failed" ELSE "insert"]
  /\ UNCHANGED <<newMessage, sending, lastSend, sentContents, directMessage, otherThanDirect>>

\* the gateway runs the insert into messages: a new row and its INSERT event,
\* or an error
SendInsert(i, ok) ==
  /\ i \in 1..Len(sends) /\ sends[i].pc = "insert"
  /\ ok \in BOOLEAN
  /\ IF ok
     THEN /\ Len(dmTable) < MaxMessages
          /\ dmTable' = <<Len(dmTable) + 1>> \o dmTable
          /\ dmEvents' = IF dmChannel = "subscribed"
                         THEN Append(dmEvents, Len(dmTable) + 1) ELSE dmEvents
          /\ sentContents' = sentContents \cup {sends[i].content}
     ELSE UNCHANGED <<dmTable, dmEvents, sentContents>>
  /\ sends' = [sends EXCEPT ![i].pc = IF ok THEN "inserted" ELSE "failed"]
  /\ UNCHANGED <<newMessage, sending, lastSend>>
  /\ UNCHANGED <<dmMessages, dmLoading, dmError, dmFetch, dmChannel, dmDelivered>>
  /\ UNCHANGED otherThanDirect

\* the call settles: setNewMessage('') after a success, the catch block
\* after a failure, then the finally block
SendSettles(i) ==
  /\ i \in 1..Len(sends) /\ sends[i].pc \in {"inserted", "failed"}
  /\ IF sends[i].pc = "inserted"
     THEN newMessage' = <<>> /\ UNCHANGED dmError
     ELSE dmError' = ErrSend /\ UNCHANGED newMessage
  /\ sending' = FALSE
  /\ lastSend' = sends[i].pc
  /\ sends' = [j \in 1..(Len(sends) - 1) |-> IF j < i THEN sends[j] ELSE sends[j + 1]]
  /\ UNCHANGED sentContents
  /\ UNCHANGED <<dmMessages, dmLoading, dmFetch, dmChannel, dmEvents, dmTable, dmDelivered>>
  /\ UNCHANGED otherThanDirect

\* the direct-message screen after its mount, nothing typed yet
InitSend ==
  /\ InitScreen /\ InitResolverIdle /\ InitStarterIdle /\ InitChallengeIdle /\ InitHomeIdle
  /\ InitNotificationsIdle
  /\ dmMessages = <<>>
  /\ dmLoading = TRUE
  /\ dmError = Null
  /\ dmFetch = [pc |-> "query", data |-> <<>>]
  /\ dmChannel = "subscribed"
  /\ dmEvents = <<>>
  /\ dmTable = <<>>
  /\ dmDelivered = {}
  /\ InitComposerIdle /\ InitRsvpIdle /\ InitEventIdle

\* typing and sending, while the events of the inserted messages arrive
NextSend ==
  \/ \E text \in Inputs : setNewMessage(text)
  \/ handleSend
  \/ \E i \in 1..Len(sends), user \in {Viewer, Null} : SendGetUser(i, user)
  \/ \E i \in 1..Len(sends), ok \in BOOLEAN : SendInsert(i, ok)
  \/ \E i \in 1..Len(sends) : SendSettles(i)
  \/ DmInsertCallback
  \/ DmUnmount

SpecSend == InitSend /\ [][NextSend]_vars

(* ------------------------ RSVPSheet.handleSubmit ---------------------- *)

ErrNotAuthenticatedRsvp == "Not authenticated"

ErrNegativeGuests == "Guest count cannot be negative"

ErrSubmit == "Failed to submit RSVP"

\* the event of the sheet
Event == "e1"

\* a row of event_rsvps
RsvpRow(id, event_id, user_id, status, guest_count) ==
  [id |-> id, event_id |-> event_id, user_id |-> user_id, status |-> status,
   guest_count |-> guest_count]

\* a value of column guest_count: null, a number, or a text
NullCell == [kind |-> "null", num |-> 0, text |-> <<>>]

NumCell(n) == [kind |-> "number", num |-> n, text |-> <<>>]

TextCell(t) == [kind |-> "text", num |-> 0, text |-> t]

\* gen_random_uuid(): an identifier no row of the table has
NewId(table) ==
  IF table = {} THEN 1
  ELSE 1 + (CHOOSE n \in {row.id : row \in table} : \A row \in table : row.id <= n)

\* the rows of one event and user
RsvpsOf(event_id, user_id) ==
  {row \in rsvpTable : row.event_id = event_id /\ row.user_id = user_id}

\* .single(): the row when exactly one matches, null otherwise
Single(rows) == IF Cardinality(rows) = 1 THEN CHOOSE row \in rows : TRUE ELSE NullResult

\* the sheets the same user has open on other devices are 1..MaxSheets; the
\* last sheet is the one of the event screen modelled
OwnSheet == MaxSheets + 1

Sheets == 1..OwnSheet

\* every variable that is not of the RSVP sheets
otherThanRsvp ==
  <<messagesScreen, resolver, starter, challengeScreen, directMessage, homeScreen,
    notificationsScreen, composer>>

\* the call of a sheet leaves the try block with an error set: the catch
\* block, or the return on a negative guest count
SubmitThrown(sheet, message) ==
  [sheet EXCEPT !.pc = "finally", !.error = message, !.guestCount = 0, !.existingRSVP = Null]

\* the call of sheet k has written its row: the locals are no longer read
SubmitDone(sheet) == [sheet EXCEPT !.pc = "success", !.guestCount = 0, !.existingRSVP = Null]

\* a press on the submit button, enabled while loading is false, with the
\* guest count typed: setLoading(true), setError(null)
handleSubmit(k, guestCount) ==
  /\ k \in Sheets /\ ~sheets[k].loading /\ ~sheets[k].closed
  /\ guestCount \in 0..MaxGuests
  /\ k = OwnSheet => Len(attendeeCalls) < MaxFetches
  /\ sheets' = [sheets EXCEPT ![k] = [@ EXCEPT !.loading = TRUE, !.error = Null,
                                                !.pc = "getUser", !.guestCount = guestCount,
                                                !.existingRSVP = Null]]
  /\ UNCHANGED <<rsvpTable, eventScreen, otherThanRsvp>>

\* getUser() settles; then the guest count is validated
SubmitGetUser(k, user) ==
  /\ k \in Sheets /\ sheets[k].pc = "getUser"
  /\ user \in {Viewer, Null}
  /\ sheets' = [sheets EXCEPT ![k] =
                  IF user = Null THEN SubmitThrown(@, ErrNotAuthenticatedRsvp)
                  ELSE IF @.guestCount < 0
                       THEN SubmitThrown(@, ErrNegativeGuests)
                  ELSE [@ EXCEPT !.pc = "select"]]
  /\ UNCHANGED <<rsvpTable, eventScreen, otherThanRsvp>>

\* the .single() select of the user's RSVP for the event settles; its error
\* is not read, data is null on an error as on no row
SubmitSelect(k, ok) ==
  /\ k \in Sheets /\ sheets[k].pc = "select"
  /\ ok \in BOOLEAN
  /\ LET data == IF ok THEN Single(RsvpsOf(Event, Viewer)) ELSE NullResult
     IN sheets' = [sheets EXCEPT ![k] =
                     IF data # NullResult
                     THEN [@ EXCEPT !.pc = "update", !.existingRSVP = data.id]
                     ELSE [@ EXCEPT !.pc = "insert"]]
  /\ UNCHANGED <<rsvpTable, eventScreen, otherThanRsvp>>

\* the update of the row found settles: the row is rewritten, or an error
SubmitUpdate(k, ok) ==
  /\ k \in Sheets /\ sheets[k].pc = "update"
  /\ ok \in BOOLEAN
  /\ IF ok
     THEN /\ rsvpTable' =
               {IF row.id = sheets[k].existingRSVP
                THEN [row EXCEPT !.guest_count = NumCell(sheets[k].guestCount),
                                 !.status = "attending"]
                ELSE row : row \in rsvpTable}
          /\ sheets' = [sheets EXCEPT ![k] = SubmitDone(@)]
     ELSE /\ sheets' = [sheets EXCEPT ![k] = SubmitThrown(@, ErrSubmit)]
          /\ UNCHANGED rsvpTable
  /\ UNCHANGED <<eventScreen, otherThanRsvp>>

\* mutant: the table has no UNIQUE(event_id, user_id)
SubmitInsert_noUnique(k, ok) ==
  /\ k \in Sheets /\ sheets[k].pc = "insert"
  /\ ok \in BOOLEAN
  /\ IF ok
     THEN /\ rsvpTable' = rsvpTable \cup
               {RsvpRow(NewId(rsvpTable), Event, Viewer, "attending",
                        NumCell(sheets[k].guestCount))}
          /\ sheets' = [sheets EXCEPT ![k] = SubmitDone(@)]
     ELSE /\ sheets' = [sheets EXCEPT ![k] = SubmitThrown(@, ErrSubmit)]
          /\ UNCHANGED rsvpTable
  /\ UNCHANGED <<eventScreen, otherThanRsvp>>

\* the insert settles: a new row, or an error; UNIQUE(event_id, user_id)
\* rejects the row when the user has one for the event
SubmitInsert(k, ok) ==
  /\ k \in Sheets /\ sheets[k].pc = "insert"
  /\ ok \in BOOLEAN
  /\ IF ok /\ RsvpsOf(Event, Viewer) = {}
     THEN /\ rsvpTable' = rsvpTable \cup
               {RsvpRow(NewId(rsvpTable), Event, Viewer, "attending",
                        NumCell(sheets[k].guestCount))}
          /\ sheets' = [sheets EXCEPT ![k] = SubmitDone(@)]
     ELSE /\ sheets' = [sheets EXCEPT ![k] = SubmitThrown(@, ErrSubmit)]
          /\ UNCHANGED rsvpTable
  /\ UNCHANGED <<eventScreen, otherThanRsvp>>

\* a call of fetchAttendeeCount at its await
AttendeeCall == [pc |-> "query", data |-> {}]

\* onSuccess of the sheet of the event screen: setHasRSVP(true),
\* fetchAttendeeCount()
handleRSVPSuccess ==
  /\ hasRSVP' = TRUE
  /\ attendeeCalls' = Append(attendeeCalls, AttendeeCall)
  /\ UNCHANGED totalAttendees

\* the rest of handleSubmit: after a success the form is cleared, onSuccess
\* is called and the sheet closed; then the finally block. onSuccess of the
\* own sheet is handleRSVPSuccess
SubmitSettles(k) ==
  /\ k \in Sheets /\ sheets[k].pc \in {"success", "finally"}
  /\ sheets' = [sheets EXCEPT ![k] = [@ EXCEPT !.loading = FALSE, !.pc = "idle",
                                                !.closed = (sheets[k].pc = "success")]]
  /\ IF k = OwnSheet /\ sheets[k].pc = "success"
     THEN handleRSVPSuccess
     ELSE UNCHANGED eventScreen
  /\ UNCHANGED <<rsvpTable, otherThanRsvp>>

\* the RSVP button of the event screen opens the sheet again
OpenSheet(k) ==
  /\ k \in Sheets /\ sheets[k].closed
  /\ sheets' = [sheets EXCEPT ![k].closed = FALSE]
  /\ UNCHANGED <<rsvpTable, eventScreen, otherThanRsvp>>

(* ------------------- EventDetailsScreen.fetchAttendeeCount ------------ *)

DigitChars == <<"0", "1", "2", "3", "4", "5", "6", "7", "8", "9">>

IsDigit(c) == \E d \in 1..10 : DigitChars[d] = c

DigitOf(c) == (CHOOSE d \in 1..10 : DigitChars[d] = c) - 1

\* String(value), as parseInt converts its argument
ToText(cell) ==
  CASE cell.kind = "null" -> <<"n", "u", "l", "l">>
    [] cell.kind = "number" -> <<DigitChars[cell.num + 1]>>
    [] OTHER -> cell.text

RECURSIVE LeadingDigits(_)
LeadingDigits(t) ==
  IF t = <<>> \/ ~IsDigit(Head(t)) THEN <<>> ELSE <<Head(t)>> \o LeadingDigits(Tail(t))

RECURSIVE ValueOf(_)
ValueOf(digits) ==
  IF digits = <<>> THEN 0
  ELSE 10 * ValueOf(SubSeq(digits, 1, Len(digits) - 1)) + DigitOf(digits[Len(digits)])

NaN == [nan |-> TRUE, value |-> 0]

\* parseInt: leading white space skipped, an optional sign, then the digits
\* up to the first other character; NaN when there is no digit
parseInt(cell) ==
  LET t == TrimStart(ToText(cell))
      negative == t # <<>> /\ Head(t) = "-"
      signed == t # <<>> /\ Head(t) \in {"-", "+"}
      digits == LeadingDigits(IF signed THEN Tail(t) ELSE t)
  IN IF digits = <<>> THEN NaN
     ELSE [nan |-> FALSE, value |-> IF negative THEN 0 - ValueOf(digits) ELSE ValueOf(digits)]

\* parseInt(x) || 0: NaN and 0 are falsy
OrZero(n) == IF n.nan \/ n.value = 0 THEN 0 ELSE n.value

\* data.reduce((sum, rsvp) => sum + 1 + (parseInt(rsvp.guest_count) || 0), 0)
RECURSIVE Total(_)
Total(data) ==
  IF data = {} THEN 0
  ELSE LET entry == CHOOSE r \in data : TRUE
       IN Total(data \ {entry}) + 1 + OrZero(parseInt(entry.guest_count))

\* select('guest_count') of the rows; the identifier keeps equal rows apart
GuestCounts(rows) == {[id |-> row.id, guest_count |-> row.guest_count] : row \in rows}

\* mutant: the query does not filter on the status
AttendeeQuery_anyStatus(i, ok) ==
  /\ i \in 1..Len(attendeeCalls) /\ attendeeCalls[i].pc = "query"
  /\ ok \in BOOLEAN
  /\ attendeeCalls' = [attendeeCalls EXCEPT ![i] =
        IF ok
        THEN [pc |-> "data",
              data |-> GuestCounts({row \in rsvpTable : row.event_id = Event})]
        ELSE [pc |-> "error", data |-> {}]]
  /\ UNCHANGED <<totalAttendees, hasRSVP, rsvp, otherThanRsvp>>

\* the query of fetchAttendeeCount executes: the guest counts of the event's
\* rows with status 'attending', or an error
AttendeeQuery(i, ok) ==
  /\ i \in 1..Len(attendeeCalls) /\ attendeeCalls[i].pc = "query"
  /\ ok \in BOOLEAN
  /\ attendeeCalls' = [attendeeCalls EXCEPT ![i] =
        IF ok
        THEN [pc |-> "data",
              data |-> GuestCounts({row \in rsvpTable :
                                      row.event_id = Event /\ row.status = "attending"})]
        ELSE [pc |-> "error", data |-> {}]]
  /\ UNCHANGED <<totalAttendees, hasRSVP, rsvp, otherThanRsvp>>

\* the rest of fetchAttendeeCount: setTotalAttendees(total), or the catch
\* block, which logs
AttendeeSettles(i) ==
  /\ i \in 1..Len(attendeeCalls) /\ attendeeCalls[i].pc \in {"data", "error"}
  /\ totalAttendees' = IF attendeeCalls[i].pc = "data" THEN Total(attendeeCalls[i].data)
                       ELSE totalAttendees
  /\ attendeeCalls' = [attendeeCalls EXCEPT ![i] = [pc |-> "done", data |-> {}]]
  /\ UNCHANGED <<hasRSVP, rsvp, otherThanRsvp>>

\* the event screen after its mount: the effect has called fetchAttendeeCount
InitEventMounted ==
  /\ totalAttendees = 0
  /\ hasRSVP = FALSE
  /\ attendeeCalls = <<AttendeeCall>>

\* the guest counts a row may hold
GuestCells ==
  {NullCell, TextCell(<<"x">>), TextCell(<<"2">>)} \cup {NumCell(n) : n \in 0..MaxGuests}

\* the row of a user for an event, or none
RowChoices(id, event_id, user_id, cells) ==
  {{}} \cup {{RsvpRow(id, event_id, user_id, status, cell)} :
               status \in {"attending", "not_attending"}, cell \in cells}

\* the event screen is mounted and its sheet closed; the table holds any rows
\* of the viewer and of another user for the event, and of another event
InitEvent ==
  /\ InitScreen /\ InitResolverIdle /\ InitStarterIdle /\ InitChallengeIdle
  /\ InitDirectIdle /\ InitHomeIdle /\ InitNotificationsIdle /\ InitComposerIdle
  /\ \E own \in RowChoices(1, Event, Viewer, {NumCell(n) : n \in 0..MaxGuests}),
        other \in RowChoices(2, Event, "u2", GuestCells),
        elsewhere0 \in {{}, {RsvpRow(3, "e2", "u2", "attending", NumCell(1))}} :
       rsvpTable = own \cup other \cup elsewhere0
  /\ sheets = [k \in Sheets |-> [IdleSheet EXCEPT !.closed = (k = OwnSheet)]]
  /\ InitEventMounted

NextEvent ==
  \/ \E guestCount \in 0..MaxGuests : handleSubmit(OwnSheet, guestCount)
  \/ \E user \in {Viewer, Null} : SubmitGetUser(OwnSheet, user)
  \/ \E ok \in BOOLEAN : SubmitSelect(OwnSheet, ok)
  \/ \E ok \in BOOLEAN : SubmitUpdate(OwnSheet, ok)
  \/ \E ok \in BOOLEAN : SubmitInsert(OwnSheet, ok)
  \/ SubmitSettles(OwnSheet)
  \/ OpenSheet(OwnSheet)
  \/ \E i \in 1..MaxFetches, ok \in BOOLEAN : AttendeeQuery(i, ok)
  \/ \E i \in 1..MaxFetches : AttendeeSettles(i)

SpecEvent == InitEvent /\ [][NextEvent]_vars

(* ------------------------ RSVPSheet: specification -------------------- *)

\* the user's other devices have the sheet open; the table holds no row, or
\* rows of another event and of another user
InitRsvp ==
  /\ InitScreen /\ InitResolverIdle /\ InitStarterIdle /\ InitChallengeIdle
  /\ InitDirectIdle /\ InitHomeIdle /\ InitNotificationsIdle /\ InitComposerIdle
  /\ rsvpTable \in {{}, {RsvpRow(1, "e2", Viewer, "attending", NumCell(0)),
                         RsvpRow(2, Event, "u2", "attending", NumCell(1))}}
  /\ sheets = [k \in Sheets |-> IdleSheet]
  /\ InitEventIdle

NextRsvp ==
  \/ \E k \in 1..MaxSheets, guestCount \in 0..MaxGuests : handleSubmit(k, guestCount)
  \/ \E k \in 1..MaxSheets, user \in {Viewer, Null} : SubmitGetUser(k, user)
  \/ \E k \in 1..MaxSheets, ok \in BOOLEAN : SubmitSelect(k, ok)
  \/ \E k \in 1..MaxSheets, ok \in BOOLEAN : SubmitUpdate(k, ok)
  \/ \E k \in 1..MaxSheets, ok \in BOOLEAN : SubmitInsert(k, ok)
  \/ \E k \in 1..MaxSheets : SubmitSettles(k)
  \/ \E k \in 1..MaxSheets : OpenSheet(k)

SpecRsvp == InitRsvp /\ [][NextRsvp]_vars

(* ---------------- HomeScreen: liked posts and likes channel ----------- *)

Posts == {"p1", "p2"}

\* a row of table likes
LikeRow(p, u) == [post_id |-> p, user_id |-> u]

\* the posts the viewer has a like row for
LikedByViewer == {p \in Posts : LikeRow(p, Viewer) \in likesTable}

\* a postgres_changes payload of table likes: payload.new of an INSERT holds
\* the row; payload.old of a DELETE holds post_id only when the table's
\* replica identity covers the column
LikePayload(eventType, post_id, user_id) ==
  [eventType |-> eventType, post_id |-> post_id, user_id |-> user_id]

\* the events in flight after the gateway has published one more
Published(payload) ==
  IF likesChannel = "subscribed" THEN Append(likeEvents, payload) ELSE likeEvents

\* another user likes a post
OtherLikes(p) ==
  /\ p \in Posts /\ LikeRow(p, "u2") \notin likesTable
  /\ Len(likeEvents) < MaxLikeEvents
  /\ likesTable' = likesTable \cup {LikeRow(p, "u2")}
  /\ likeEvents' = Published(LikePayload("INSERT", p, "u2"))
  /\ UNCHANGED <<likedPosts, likesChannel, likedFetch, likeCalls, likePresses, everLiked>>
  /\ UNCHANGED <<messagesScreen, resolver, starter, challengeScreen, directMessage,
                 notificationsScreen, furtherScreens>>

\* another user takes a like back
OtherUnlikes(p, old) ==
  /\ p \in Posts /\ LikeRow(p, "u2") \in likesTable
  /\ old \in {p, NoId}
  /\ Len(likeEvents) < MaxLikeEvents
  /\ likesTable' = likesTable \ {LikeRow(p, "u2")}
  /\ likeEvents' = Published(LikePayload("DELETE", old, "u2"))
  /\ UNCHANGED <<likedPosts, likesChannel, likedFetch, likeCalls, likePresses, everLiked>>
  /\ UNCHANGED <<messagesScreen, resolver, starter, challengeScreen, directMessage,
                 notificationsScreen, furtherScreens>>

\* the likes channel's callback runs for the oldest event in flight
LikesCallback ==
  /\ likeEvents # <<>>
  /\ LET payload == Head(likeEvents)
     IN likedPosts' =
          IF payload.eventType = "INSERT" THEN likedPosts \cup {payload.post_id}
          ELSE IF payload.eventType = "DELETE" THEN likedPosts \ {payload.post_id}
          ELSE likedPosts
  /\ likeEvents' = Tail(likeEvents)
  /\ UNCHANGED <<likesTable, likesChannel, likedFetch, likeCalls, likePresses, everLiked>>
  /\ UNCHANGED <<messagesScreen, resolver, starter, challengeScreen, directMessage,
                 notificationsScreen, furtherScreens>>

\* the calls of handleLike in flight without call i
LikeSettle(i) ==
  [j \in 1..(Len(likeCalls) - 1) |-> IF j < i THEN likeCalls[j] ELSE likeCalls[j + 1]]

\* a press on the heart of a post: handleLike(postId); the handler reads
\* likedPosts of the render that created it
LikePress(postId) ==
  /\ postId \in Posts
  /\ likePresses < MaxPresses
  /\ likePresses' = likePresses + 1
  /\ likeCalls' = Append(likeCalls, [pc |-> "getUser", postId |-> postId,
                                     isLiked |-> postId \in likedPosts])
  /\ UNCHANGED <<likedPosts, likesTable, likesChannel, likeEvents, likedFetch, everLiked>>
  /\ UNCHANGED <<messagesScreen, resolver, starter, challengeScreen, directMessage,
                 notificationsScreen, furtherScreens>>

\* handleLike: getUser() settles; without a user the handler returns
LikeGetUser(i, user) ==
  /\ i \in 1..Len(likeCalls) /\ likeCalls[i].pc = "getUser"
  /\ user \in {Viewer, Null}
  /\ likeCalls' = IF user = Null THEN LikeSettle(i)
                  ELSE [likeCalls EXCEPT ![i].pc = "request"]
  /\ UNCHANGED <<likedPosts, likesTable, likesChannel, likeEvents, likedFetch,
                 likePresses, everLiked>>
  /\ UNCHANGED <<messagesScreen, resolver, starter, challengeScreen, directMessage,
                 notificationsScreen, furtherScreens>>

\* the gateway runs the delete or the insert of handleLike, or rejects it
LikeRequest(i, ok) ==
  /\ i \in 1..Len(likeCalls) /\ likeCalls[i].pc = "request"
  /\ ok \in BOOLEAN
  /\ Len(likeEvents) < MaxLikeEvents
  /\ LET row == LikeRow(likeCalls[i].postId, Viewer)
         deletes == ok /\ likeCalls[i].isLiked /\ row \in likesTable
         inserts == ok /\ ~likeCalls[i].isLiked /\ row \notin likesTable
     IN /\ likesTable' = IF deletes THEN likesTable \ {row}
                         ELSE IF inserts THEN likesTable \cup {row}
                         ELSE likesTable
        /\ likeEvents' = IF deletes THEN Published(LikePayload("DELETE", row.post_id, Viewer))
                         ELSE IF inserts THEN Published(LikePayload("INSERT", row.post_id, Viewer))
                         ELSE likeEvents
        /\ everLiked' = IF inserts THEN everLiked \cup {row.post_id} ELSE everLiked
  /\ likeCalls' = [likeCalls EXCEPT ![i].pc = "response"]
  /\ UNCHANGED <<likedPosts, likesChannel, likedFetch, likePresses>>
  /\ UNCHANGED <<messagesScreen, resolver, starter, challengeScreen, directMessage,
                 notificationsScreen, furtherScreens>>

\* the awaited request settles; its error is not read: setLikedPosts
LikeResponse(i) ==
  /\ i \in 1..Len(likeCalls) /\ likeCalls[i].pc = "response"
  /\ likedPosts' = IF likeCalls[i].isLiked THEN likedPosts \ {likeCalls[i].postId}
                   ELSE likedPosts \cup {likeCalls[i].postId}
  /\ likeCalls' = LikeSettle(i)
  /\ UNCHANGED <<likesTable, likesChannel, likeEvents, likedFetch, likePresses, everLiked>>
  /\ UNCHANGED <<messagesScreen, resolver, starter, challengeScreen, directMessage,
                 notificationsScreen, furtherScreens>>

\* the effect's getUser().then(...): with a user, fetchLikedPosts() is called
LikedMountUser(user) ==
  /\ likedFetch.pc = "mount"
  /\ user \in {Viewer, Null}
  /\ likedFetch' = [likedFetch EXCEPT !.pc = IF user = Null THEN "done" ELSE "getUser"]
  /\ UNCHANGED <<likedPosts, likesTable, likesChannel, likeEvents, likeCalls,
                 likePresses, everLiked>>
  /\ UNCHANGED <<messagesScreen, resolver, starter, challengeScreen, directMessage,
                 notificationsScreen, furtherScreens>>

\* fetchLikedPosts: getUser() settles; without a user the function returns
LikedGetUser(user) ==
  /\ likedFetch.pc = "getUser"
  /\ user \in {Viewer, Null}
  /\ likedFetch' = [likedFetch EXCEPT !.pc = IF user = Null THEN "done" ELSE "query"]
  /\ UNCHANGED <<likedPosts, likesTable, likesChannel, likeEvents, likeCalls,
                 likePresses, everLiked>>
  /\ UNCHANGED <<messagesScreen, resolver, starter, challengeScreen, directMessage,
                 notificationsScreen, furtherScreens>>

\* the gateway runs select post_id from likes where user_id = user.id;
\* data is null on an error
LikedQuery(ok) ==
  /\ likedFetch.pc = "query"
  /\ ok \in BOOLEAN
  /\ likedFetch' = IF ok THEN [pc |-> "rows", data |-> LikedByViewer]
                   ELSE [pc |-> "null", data |-> {}]
  /\ UNCHANGED <<likedPosts, likesTable, likesChannel, likeEvents, likeCalls,
                 likePresses, everLiked>>
  /\ UNCHANGED <<messagesScreen, resolver, starter, challengeScreen, directMessage,
                 notificationsScreen, furtherScreens>>

\* the awaited select settles: if (likes) setLikedPosts(new Set(...))
LikedSettles ==
  /\ likedFetch.pc \in {"rows", "null"}
  /\ likedPosts' = IF likedFetch.pc = "rows" THEN likedFetch.data ELSE likedPosts
  /\ likedFetch' = [pc |-> "done", data |-> {}]
  /\ UNCHANGED <<likesTable, likesChannel, likeEvents, likeCalls, likePresses, everLiked>>
  /\ UNCHANGED <<messagesScreen, resolver, starter, challengeScreen, directMessage,
                 notificationsScreen, furtherScreens>>

\* pull-to-refresh of the feed: fetchLikedPosts() is called again
onRefreshHome ==
  /\ likedFetch.pc = "done"
  /\ likePresses < MaxPresses
  /\ likePresses' = likePresses + 1
  /\ likedFetch' = [pc |-> "getUser", data |-> {}]
  /\ UNCHANGED <<likedPosts, likesTable, likesChannel, likeEvents, likeCalls, everLiked>>
  /\ UNCHANGED <<messagesScreen, resolver, starter, challengeScreen, directMessage,
                 notificationsScreen, furtherScreens>>

\* the effect's cleanup: likesChannel.unsubscribe()
HomeUnmount ==
  /\ likesChannel = "subscribed"
  /\ likesChannel' = "closed"
  /\ likeEvents' = <<>>
  /\ UNCHANGED <<likedPosts, likesTable, likedFetch, likeCalls, likePresses, everLiked>>
  /\ UNCHANGED <<messagesScreen, resolver, starter, challengeScreen, directMessage,
                 notificationsScreen, furtherScreens>>

\* the feed after its mount; the viewer has liked nothing or post p1
InitHome ==
  /\ InitScreen /\ InitResolverIdle
  /\ InitStarterIdle /\ InitChallengeIdle /\ InitDirectIdle /\ InitNotificationsIdle
  /\ InitFurtherIdle
  /\ likedPosts = {}
  /\ likesTable \in {{}, {LikeRow("p1", Viewer)}}
  /\ likesChannel = "subscribed"
  /\ likeEvents = <<>>
  /\ likedFetch = [pc |-> "mount", data |-> {}]
  /\ likeCalls = <<>>
  /\ likePresses = 0
  /\ everLiked = LikedByViewer

NextHome ==
  \/ \E p \in Posts : OtherLikes(p)
  \/ \E p \in Posts, old \in Posts \cup {NoId} : OtherUnlikes(p, old)
  \/ LikesCallback
  \/ \E postId \in Posts : LikePress(postId)
  \/ \E i \in 1..Len(likeCalls), user \in {Viewer, Null} : LikeGetUser(i, user)
  \/ \E i \in 1..Len(likeCalls), ok \in BOOLEAN : LikeRequest(i, ok)
  \/ \E i \in 1..Len(likeCalls) : LikeResponse(i)
  \/ \E user \in {Viewer, Null} : LikedMountUser(user)
  \/ \E user \in {Viewer, Null} : LikedGetUser(user)
  \/ \E ok \in BOOLEAN : LikedQuery(ok)
  \/ LikedSettles
  \/ onRefreshHome
  \/ HomeUnmount

SpecHome == InitHome /\ [][NextHome]_vars

(* ------------- NotificationsScreen: effect, fetch and channel --------- *)

ErrNotAuthenticated == "User not authenticated"

ErrLoadNotifications == "Failed to load notifications"

\* every variable that is not of the notifications screen
otherThanNotifications ==
  <<messagesScreen, resolver, starter, challengeScreen, directMessage, homeScreen,
    furtherScreens>>

\* a call of fetchNotifications(userId) suspended at its select
NewNotificationsCall == [pc |-> "query", data |-> <<>>]

\* the effect's fetchUser(): getUser() settles. Without a user the error is
\* set; with one, fetchNotifications(user.id) is called and the channel is
\* subscribed. The function that fetchUser returns is the value of a promise
\* nobody reads: the effect itself returns nothing.
NtFetchUser(user) ==
  /\ ntEffect = "getUser"
  /\ user \in {Viewer, Null}
  /\ ntEffect' = "done"
  /\ IF user = Null
     THEN /\ ntLoading' = FALSE
          /\ ntError' = ErrNotAuthenticated
          /\ UNCHANGED <<ntCalls, ntChannel>>
     ELSE /\ ntCalls' = Append(ntCalls, NewNotificationsCall)
          /\ ntChannel' = "subscribed"
          /\ UNCHANGED <<ntLoading, ntError>>
  /\ UNCHANGED <<ntNotifications, ntRefreshing, ntActive, ntEvents, ntTable>>
  /\ UNCHANGED otherThanNotifications

\* a notification row of the viewer is inserted; the subscribed channel gets
\* its INSERT event
NotificationInserted ==
  /\ Len(ntTable) < MaxNotifications
  /\ ntTable' = <<Len(ntTable) + 1>> \o ntTable
  /\ ntEvents' = IF ntChannel = "subscribed" THEN ntEvents + 1 ELSE ntEvents
  /\ UNCHANGED <<ntNotifications, ntLoading, ntRefreshing, ntError, ntActive, ntEffect,
                 ntChannel, ntCalls>>
  /\ UNCHANGED otherThanNotifications

\* the channel's callback runs for an event: fetchNotifications(user.id)
NtInsertCallback ==
  /\ ntEvents > 0
  /\ ntEvents' = ntEvents - 1
  /\ ntCalls' = Append(ntCalls, NewNotificationsCall)
  /\ UNCHANGED <<ntNotifications, ntLoading, ntRefreshing, ntError, ntActive, ntEffect,
                 ntChannel, ntTable>>
  /\ UNCHANGED otherThanNotifications

\* handleRefresh: getUser() settles; with a user fetchNotifications is called
NtRefreshUser(i, user) ==
  /\ i \in 1..Len(ntCalls) /\ ntCalls[i].pc = "getUser"
  /\ user \in {Viewer, Null}
  /\ ntCalls' = IF user = Null
                THEN [j \in 1..(Len(ntCalls) - 1) |->
                        IF j < i THEN ntCalls[j] ELSE ntCalls[j + 1]]
                ELSE [ntCalls EXCEPT ![i] = NewNotificationsCall]
  /\ UNCHANGED <<ntNotifications, ntLoading, ntRefreshing, ntError, ntActive, ntEffect,
                 ntChannel, ntEvents, ntTable>>
  /\ UNCHANGED otherThanNotifications

\* the gateway runs the select of fetchNotifications
NtQueryExecutes(i, ok) ==
  /\ i \in 1..Len(ntCalls) /\ ntCalls[i].pc = "query"
  /\ ok \in BOOLEAN
  /\ ntCalls' = [ntCalls EXCEPT ![i] = IF ok THEN [pc |-> "rows", data |-> ntTable]
                                       ELSE [pc |-> "error", data |-> <<>>]]
  /\ UNCHANGED <<ntNotifications, ntLoading, ntRefreshing, ntError, ntActive, ntEffect,
                 ntChannel, ntEvents, ntTable>>
  /\ UNCHANGED otherThanNotifications

\* the awaited select settles: setNotifications(data || []), or the catch
\* block, then the finally block
NtQuerySettles(i) ==
  /\ i \in 1..Len(ntCalls) /\ ntCalls[i].pc \in {"rows", "error"}
  /\ IF ntCalls[i].pc = "rows"
     THEN ntNotifications' = ntCalls[i].data /\ UNCHANGED ntError
     ELSE ntError' = ErrLoadNotifications /\ UNCHANGED ntNotifications
  /\ ntLoading' = FALSE
  /\ ntRefreshing' = FALSE
  /\ ntCalls' = [j \in 1..(Len(ntCalls) - 1) |->
                   IF j < i THEN ntCalls[j] ELSE ntCalls[j + 1]]
  /\ UNCHANGED <<ntActive, ntEffect, ntChannel, ntEvents, ntTable>>
  /\ UNCHANGED otherThanNotifications

\* pull-to-refresh, possible while the spinner of a refresh is not shown
NtHandleRefresh ==
  /\ ntActive /\ ~ntRefreshing
  /\ ntRefreshing' = TRUE
  /\ ntCalls' = Append(ntCalls, [pc |-> "getUser", data |-> <<>>])
  /\ UNCHANGED <<ntNotifications, ntLoading, ntError, ntActive, ntEffect, ntChannel,
                 ntEvents, ntTable>>
  /\ UNCHANGED otherThanNotifications

\* the screen is left: React runs the effect's cleanup, which is undefined
NtDeactivate ==
  /\ ntActive
  /\ ntActive' = FALSE
  /\ UNCHANGED <<ntNotifications, ntLoading, ntRefreshing, ntError, ntEffect, ntChannel,
                 ntEvents, ntCalls, ntTable>>
  /\ UNCHANGED otherThanNotifications

\* the screen after its mount: the effect has called fetchUser()
InitNotifications ==
  /\ InitScreen /\ InitResolverIdle
  /\ InitStarterIdle /\ InitChallengeIdle /\ InitDirectIdle /\ InitHomeIdle
  /\ InitFurtherIdle
  /\ ntNotifications = <<>>
  /\ ntLoading = TRUE
  /\ ntRefreshing = FALSE
  /\ ntError = Null
  /\ ntActive = TRUE
  /\ ntEffect = "getUser"
  /\ ntChannel = "none"
  /\ ntEvents = 0
  /\ ntCalls = <<>>
  /\ ntTable = <<>>

NextNotifications ==
  \/ \E user \in {Viewer, Null} : NtFetchUser(user)
  \/ NotificationInserted
  \/ NtInsertCallback
  \/ \E i \in 1..Len(ntCalls), user \in {Viewer, Null} : NtRefreshUser(i, user)
  \/ \E i \in 1..Len(ntCalls), ok \in BOOLEAN : NtQueryExecutes(i, ok)
  \/ \E i \in 1..Len(ntCalls) : NtQuerySettles(i)
  \/ NtHandleRefresh
  \/ NtDeactivate

SpecNotifications == InitNotifications /\ [][NextNotifications]_vars

(* ------------------------ claims on the resolver ---------------------- *)

\* entry i carries a profile with an identifier
EntryValid(i) ==
  /\ rParticipants[i].profiles # NullProfile
  /\ rParticipants[i].profiles.id # NoId

\* entry i carries a profile with an identifier other than the viewer's
EntryOther(i) == EntryValid(i) /\ rParticipants[i].profiles.id # rViewer

\* entry i carries the viewer's own profile
EntrySelf(i) == EntryValid(i) /\ rParticipants[i].profiles.id = rViewer

Resolved == rpc \in {"resolved", "rendered", "headed"}

Entries == 1..Len(rParticipants)

\* C1: when exactly one entry of the participant list carries a profile with
\* an identifier different from the viewer's, wherever it stands and whatever
\* viewer entries or entries without profile or identifier surround it, the
\* resolver returns that entry's profile.
C1_ExactlyOneOther ==
  Resolved =>
    \A i \in Entries :
      (EntryOther(i) /\ \A j \in Entries \ {i} : ~EntryOther(j))
        => rOther = rParticipants[i].profiles

\* the single other participant stands last, after a viewer entry and an
\* entry without profile
C1_Witness ==
  /\ rpc = "resolved"
  /\ Len(rParticipants) = 3
  /\ EntrySelf(1)
  /\ rParticipants[2].profiles = NullProfile
  /\ EntryOther(3)
  /\ rOther = rParticipants[3].profiles

\* C2: for a non-empty list whose entries all carry the viewer's identifier
\* the resolver returns the first entry's profile, not the unresolvable signal.
C2_SelfConversation ==
  (Resolved /\ Len(rParticipants) > 0 /\ \A i \in Entries : EntrySelf(i))
    => (rOther = rParticipants[1].profiles /\ rOther # NullResult)

\* two viewer entries that differ in their avatar: the first one is returned
C2_Witness ==
  /\ rpc = "resolved"
  /\ Len(rParticipants) >= 2
  /\ \A i \in Entries : EntrySelf(i)
  /\ rParticipants[1] # rParticipants[2]
  /\ rOther = rParticipants[1].profiles

\* C3: a list with no valid profile (empty, or every entry without profile or
\* without identifier) resolves to null, is dropped by the fetch-time filter
\* and renders no item.
C3_NoValidProfile ==
  (\A i \in Entries : ~EntryValid(i)) =>
    /\ Resolved => rOther = NullResult
    /\ rpc # "fetched" => ~rKept
    /\ rpc \in {"rendered", "headed"} => rItem = NullResult

\* one entry without profile and one without identifier, through to rendering
C3_Witness ==
  /\ rpc = "rendered"
  /\ Len(rParticipants) = 2
  /\ rParticipants[1].profiles = NullProfile
  /\ rParticipants[2].profiles # NullProfile
  /\ rParticipants[2].profiles.id = NoId
  /\ rOther = NullResult
  /\ ~rKept

\* C4: when some entry carries a valid profile of another user, the resolver
\* returns the profile of the first such entry in input order.
C4_FirstOther ==
  Resolved =>
    \A i \in Entries :
      (EntryOther(i) /\ \A j \in 1..(i - 1) : ~EntryOther(j))
        => rOther = rParticipants[i].profiles

\* two different other participants behind a skipped entry
C4_Witness ==
  /\ rpc = "resolved"
  /\ Len(rParticipants) = 3
  /\ ~EntryOther(1)
  /\ EntryOther(2)
  /\ EntryOther(3)
  /\ rParticipants[2] # rParticipants[3]
  /\ rOther = rParticipants[2].profiles

Rendered == rpc \in {"rendered", "headed"} /\ rItem # NullResult

\* the entries that carry a profile with an identifier other than the viewer's
OtherEntries == {i \in Entries : EntryOther(i)}

FirstOtherEntry == CHOOSE i \in OtherEntries : \A j \in OtherEntries : i <= j

\* C11: the avatar of a rendered conversation is the avatar of the first
\* participant whose identifier differs from the viewer's, and the resolved
\* profile's own avatar when there is no such participant.
C11_AvatarOfFirstOther ==
  Rendered =>
    rItem.avatarUrl =
      IF OtherEntries # {} THEN rParticipants[FirstOtherEntry].profiles.avatar_url
      ELSE rItem.otherParticipant.avatar_url

\* C16: for a conversation with at most two participants the avatar shown
\* is the avatar of the profile whose name is shown.
C16_AvatarAndNameSameProfile ==
  (Rendered /\ Len(rParticipants) <= 2) =>
    rItem.avatarUrl = rItem.otherParticipant.avatar_url

\* C17: when every participant has a profile with an identifier, the header
\* of the direct-message screen resolves to the profile the conversation
\* list resolves to, self-conversation and unknown viewer included.
C17_HeaderMatchesList ==
  (rpc = "headed" /\ \A i \in Entries : EntryValid(i)) => rHeader = rOther

(* ------------------------- claims on the screen ----------------------- *)

\* a step in which a channel callback consumes a change event
ChangeDelivered ==
  \E t \in {"conversations", "messages"} : pending'[t] < pending[t]

\* a step in which a call of fetchConversations settles
FetchSettled == Len(inflight') < Len(inflight)

Failures == GetUserFailures \cup {"fetchError", "throw"}

FailureMessage(outcome) ==
  CASE outcome = "userError" -> ErrUserError
    [] outcome = "noUser" -> ErrNoUser
    [] outcome = "authThrow" -> ErrAuthThrow
    [] outcome = "fetchError" -> ErrFetchError
    [] OTHER -> ErrThrow

\* C6: once every call has settled, the screen shows the result of the call
\* that settled last, also when a call started after it settled before it:
\* its valid conversations and no error after a success, its error message
\* after a failure.
C6_LastSettledWins ==
  (inflight = <<>> /\ lastSettled # NoSettle) =>
    IF lastSettled.outcome = "ok"
    THEN /\ conversations = SelectSeq(lastSettled.data, LAMBDA c : IsValidConversation(c))
         /\ error = Null
    ELSE error = FailureMessage(lastSettled.outcome)

\* the call that settled last had been overtaken by a younger call, and the
\* list it left differs from what the gateway holds
C6_Witness ==
  /\ inflight = <<>>
  /\ lastSettled.overtaken
  /\ lastSettled.outcome = "ok"
  /\ conversations = validConversations(lastSettled.data)
  /\ conversations # validConversations(remote)

\* C7: after the cleanup of the effect has run, no step changes the state
\* of the screen.
C7_NoUpdateAfterUnmount ==
  [][~mounted => UNCHANGED screen]_vars

\* C8: once unmounted the screen stays unmounted with both channels
\* released, and a change event delivered then starts no call and changes
\* no state.
C8_ReleasedOnUnmount ==
  /\ [](~mounted => (conversationsChannel = "closed" /\ messagesChannel = "closed"))
  /\ [][~mounted => ~mounted']_vars
  /\ [][(~mounted /\ ChangeDelivered) => UNCHANGED <<screen, started, inflight>>]_vars

\* a callback ran after the cleanup
C8_Witness ==
  /\ ~mounted
  /\ ignored
  /\ conversationsChannel = "closed"
  /\ messagesChannel = "closed"

\* a step of the Retry button: the error view was shown, loading is set
RetryPressed == mounted /\ ~loading /\ error # Null /\ loading' /\ error' = Null

\* a step of pull-to-refresh: the list was shown, refreshing is set
RefreshPulled == mounted /\ ~loading /\ error = Null /\ refreshing'

\* C9: the step in which a call fails leaves a non-empty error message and
\* loading false (the error view with its Retry button), and starts no call;
\* calls are started only by Retry, pull-to-refresh and the change callbacks.
C9_FailureSurfaces ==
  /\ [][(FetchSettled /\ lastSettled'.outcome \in Failures) =>
          /\ error' # Null /\ error' # ""
          /\ ~loading'
          /\ started' = started
          /\ Len(inflight') = Len(inflight) - 1]_vars
  /\ [][started' # started =>
          (RetryPressed \/ RefreshPulled \/ (mounted /\ ChangeDelivered))]_vars

\* the only call failed and nothing else was started
C9_Witness ==
  /\ lastSettled.outcome \in Failures
  /\ error = FailureMessage(lastSettled.outcome)
  /\ ~loading
  /\ started = 0
  /\ inflight = <<>>

\* a conversation with at least one participant that has a profile and an id
HasUsableParticipant(conv) ==
  \E i \in 1..Len(conv.participants) :
    /\ conv.participants[i].profiles # NullProfile
    /\ conv.participants[i].profiles.id # NoId

\* C10: after a successful fetch the stored list is the fetched list without
\* the conversations that have no usable participant, in fetched order, and
\* no error is set, however many conversations were dropped.
C10_ValidConversationsKept ==
  lastSettled.outcome = "ok" =>
    /\ conversations = SelectSeq(lastSettled.data, HasUsableParticipant)
    /\ error = Null

\* an invalid conversation came first, the valid one behind it is shown
C10_Witness ==
  /\ lastSettled.outcome = "ok"
  /\ Len(lastSettled.data) = 2
  /\ ~HasUsableParticipant(lastSettled.data[1])
  /\ HasUsableParticipant(lastSettled.data[2])
  /\ conversations = <<lastSettled.data[2]>>
  /\ error = Null

\* C21: every conversation of the stored list is resolvable: the resolver
\* returns a profile for it, for the viewer the screen holds and for any other.
C21_StoredResolvable ==
  \A i \in 1..Len(conversations), viewer \in UserIds \cup {Null, currentUserId} :
    getOtherParticipant(conversations[i].participants, viewer) # NullResult

\* a fetch returned an unresolvable row among others; the stored rows resolve
C21_Witness ==
  /\ lastSettled.outcome = "ok"
  /\ \E i \in 1..Len(lastSettled.data) :
       getOtherParticipant(lastSettled.data[i].participants, currentUserId) = NullResult
  /\ conversations # <<>>
  /\ conversations = validConversations(lastSettled.data)

\* C22: while the stored list is not empty the screen holds the viewer's
\* identifier, so no conversation with another valid participant resolves to
\* the viewer's own profile.
C22_ViewerKnown ==
  /\ conversations # <<>> => currentUserId # Null
  /\ \A i \in 1..Len(conversations) :
       otherProfiles(conversations[i].participants, Viewer) # <<>>
         => getOtherParticipant(conversations[i].participants, currentUserId).id # Viewer

\* the list holds the conversation of u1 and u2 and resolves it to u2
C22_Witness ==
  /\ \E i \in 1..Len(conversations) :
       /\ conversations[i].id = "c1"
       /\ getOtherParticipant(conversations[i].participants, currentUserId).id = "u2"
  /\ currentUserId = Viewer

\* C13: with every started call settling, loading always becomes false
\* again, whatever the outcome of the calls, and loading is never true
\* without a call in flight.
C13_LoadingEnds ==
  /\ loading ~> ~loading
  /\ [](loading => inflight # <<>>)

\* the call of initialize() found no user and the spinner is gone
C13_Witness ==
  /\ mounted
  /\ lastSettled.outcome = "noUser"
  /\ started = 0
  /\ initPc = "done"
  /\ ~loading

(* ------------------- claims on startConversation ---------------------- *)

\* the conversations in which both users are participants
Shared(u, v) ==
  {c \in conversationsTable :
     /\ ParticipantRow(c, u) \in participantsTable
     /\ ParticipantRow(c, v) \in participantsTable}

\* the step in which call k gets its new conversation row
Creates(k) == calls[k].newConversation = 0 /\ calls'[k].newConversation # 0

\* C14: a call creates a conversation row only when no conversation has both
\* the viewer and the selected user as participants, and a call that ends at
\* an existing conversation created no row.
C14_CreatesOnlyWhenNoneShared ==
  /\ [][\A k \in 1..MaxCalls :
          Creates(k) => Shared(calls[k].user, calls[k].otherUserId) = {}]_vars
  /\ [][\A k \in 1..MaxCalls :
          (calls'[k].pushed # 0 /\ calls'[k].newConversation = 0)
            => UNCHANGED <<conversationsTable, participantsTable>>]_vars

\* C15: once a call has finished, with or without an error, the conversation
\* row it created has at least one participant row.
C15_CreatedHasParticipant ==
  \A k \in 1..MaxCalls :
    (calls[k].pc = "done" /\ calls[k].newConversation # 0)
      => \E u \in UserIds :
           ParticipantRow(calls[k].newConversation, u) \in participantsTable

\* C20: whatever the interleaving of the calls, at most one conversation has
\* both users as participants.
C20_AtMostOneShared == Cardinality(Shared("u1", "u2")) <= 1

(* ------------------- claims on the challenge screens ------------------ *)

\* the step in which a call started by Try Again settles with success
RetrySucceeds ==
  /\ Len(chCalls') = Len(chCalls) - 1
  /\ chSettled'.retry /\ chSettled'.outcome = "ok"

\* C18: on the rankings and the challenge details screen, when a call started
\* by Try Again settles with success, the data view is shown.
C18_RetryShowsData == [][RetrySucceeds => View' = "data"]_vars

(* ---------------- claims on the direct-message screen ----------------- *)

\* the ids of the displayed list
Displayed == {dmMessages[i] : i \in 1..Len(dmMessages)}

\* C19: whatever the interleaving of the initial fetch and the insert events,
\* no id occurs twice in the displayed list and every id that the callback
\* received is in the list.
C19_NoDuplicateNoLoss ==
  /\ \A i, j \in 1..Len(dmMessages) : dmMessages[i] = dmMessages[j] => i = j
  /\ dmDelivered \subseteq Displayed

(* ----------------------- claims on the home feed ---------------------- *)

\* the likes callback runs for an event of another user's like
OtherUsersEvent ==
  /\ likeEvents # <<>> /\ likeEvents' = Tail(likeEvents)
  /\ Head(likeEvents).user_id # Viewer

\* C23: the viewer's liked-post set holds a post only if a like of the viewer
\* for that post has existed, and the events of other users' likes leave the
\* set as it is.
C23_OnlyOwnLikes ==
  /\ [](likedPosts \subseteq everLiked)
  /\ [][OtherUsersEvent => UNCHANGED likedPosts]_vars

(* ------------------ claims on the notifications screen ---------------- *)

\* the channel's callback runs for an insert event
NtEventDelivered == ntEvents' = ntEvents - 1

\* C24: once the notifications screen is deactivated its subscription is
\* released, and an insert event delivered then starts no call of
\* fetchNotifications and changes no state of the screen.
C24_ReleasedOnDeactivate ==
  /\ [](~ntActive => ntChannel # "subscribed")
  /\ [][(~ntActive /\ NtEventDelivered) =>
          UNCHANGED <<ntNotifications, ntLoading, ntRefreshing, ntError, ntCalls>>]_vars

(* -------------------------- claims on handleSend ---------------------- *)

\* the step in which a call of handleSend ends
SendEnds == Len(sends') = Len(sends) - 1

\* C25: at most one call of handleSend is in flight, so at most one insert;
\* no inserted content is empty; sending is false when no call is in flight;
\* and the step that ends a call clears the input after a success and leaves
\* it as it is after a failure.
C25_OneSendAtATime ==
  /\ [](Len(sends) <= 1)
  /\ [](\A content \in sentContents : content # <<>> /\ content = Trim(content))
  /\ [](sends = <<>> => ~sending)
  /\ [][SendEnds =>
          /\ ~sending'
          /\ lastSend' = "inserted" => newMessage' = <<>>
          /\ lastSend' = "failed" => newMessage' = newMessage]_vars

\* a send failed with " a" typed: the input is kept and sending is false
C25_Witness ==
  /\ lastSend = "failed"
  /\ dmError = ErrSend
  /\ newMessage = <<" ", "a">>
  /\ sends = <<>>
  /\ ~sending
  /\ sentContents = {<<"a">>}

(* ------------------------ claims on the RSVP sheet -------------------- *)

\* the identifiers of the viewer's rows for the event
ViewerRsvpIds == {row.id : row \in RsvpsOf(Event, Viewer)}

ExpectedGuests(cell) ==
  CASE cell.kind = "number" -> cell.num
    [] cell = TextCell(<<"2">>) -> 2
    [] OTHER -> 0

\* the largest number of guests of a row
MostGuests == MaxGuests + 2

\* one per RSVP, plus the guests
RECURSIVE GuestsUpTo(_, _)
GuestsUpTo(n, rows) ==
  IF n = 0 THEN 0
  ELSE n * Cardinality({row \in rows : ExpectedGuests(row.guest_count) = n})
       + GuestsUpTo(n - 1, rows)

ExpectedTotal(rows) == Cardinality(rows) + GuestsUpTo(MostGuests, rows)

====
